---- MODULE Spec2Model ----
(***************************************************************************)
(* A model of the Zipformer encoder of zipvoice/zipformer.py.              *)
(*                                                                         *)
(* Tensors are modelled by what the properties below read of them: the     *)
(* time axis of a feature tensor is a sequence of frames, the other axes   *)
(* are sizes.  Every component has a specification of its own (SpecXxx);   *)
(* the variables of the other components keep their initial value there.   *)
(***************************************************************************)
EXTENDS Integers, Sequences, FiniteSets, TLC

VARIABLES
    ctor,   \* TTSZipformer.__init__: its arguments, its position, what it built
    fwd,    \* TTSZipformer.forward: its arguments, its position, the tensor x
    ada,    \* one call of DownsampledZipformer2Encoder.forward
    att,    \* one call of RelPositionMultiheadAttentionWeights.forward, from the scores on
    rel,    \* one call of RelPositionMultiheadAttentionWeights.forward, the positional scores
    pec,    \* a CompactRelPositionalEncoding: its cached table self.pe and its last call
    det,    \* two calls of Zipformer2EncoderLayer.forward on the same inputs, side by side
    tse,    \* calls of timestep_embedding on a batch, on a permutation of it, on one example
    con,    \* TTSZipformer.__init__ with its per-stack hyperparameters
    fb,     \* the compute_fbank command: its arguments, the files, the pool, its runs
    lyr,    \* one call of Zipformer2EncoderLayer.forward: weights and skip masks
    wrm,    \* Zipformer2Encoder.__init__: the warmup phases of the layers' bypasses
    msk,    \* one call of DownsampledZipformer2Encoder.forward, its attention mask
    byp,    \* one call of BypassModule.forward: the scale it multiplies by
    tef     \* one call of TTSZipformer.forward: the time and guidance embeddings

vars == <<ctor, fwd, ada, att, rel, pec, det, tse, con, fb, lyr, wrm,
          msk, byp, tef>>

(***************************************************************************)
(* Bounds of the model.                                                    *)
(***************************************************************************)
MaxStacks == 5      \* longest downsampling_factor tuple tried
MaxFactor == 4      \* largest entry of a downsampling_factor tuple tried
MaxBatch == 2       \* largest batch size
MaxT == 17          \* longest input, in frames
MaxDs == 5          \* largest downsample factor given to the adapter alone
InDim == 3          \* in_dim of the model under test
OutDim == 4         \* out_dim of the model under test
EncoderDim == 6     \* encoder_dim of the model under test
TimeEmbedDim == 2   \* time_embed_dim of the model under test
MaxAttT == 2        \* longest sequence given to the attention-weights module alone
UnderflowGap == 3   \* exp(d) is exactly 0 for d < -UnderflowGap (about 104 in float32)
MaxRelT == 5        \* longest sequence whose positional scores are indexed
MaxRelBatch == 2    \* largest batch of the positional scores
MaxRelHeads == 2    \* largest number of heads of the positional scores
MaxPeT == 3         \* longest short input given to the positional encoding
MaxPeGrow == 3      \* how far beyond max_len an input given to it may reach
max_len == 1000     \* CompactRelPositionalEncoding.__init__: max_len
MaxDetBatch == 1    \* largest batch given to the two side-by-side layer calls
NonzeroRate == 200  \* the nonzero value tried for a rate, in thousandths
PenaltyProb == 100  \* random.random() < 0.1, in thousandths
LogProb == 1        \* random.random() < 0.001, in thousandths
AttnDropoutP == 0   \* RelPositionMultiheadAttentionWeights(dropout=0.0)
MidSkipRate == 0    \* BypassModule(skip_rate=0.0) of bypass_mid
StraightThroughRate == 0  \* BypassModule(straight_through_rate=0)
MaxTsN == 2         \* largest batch of timesteps
MaxTsT == 2         \* longest time axis of a rank-2 tensor of timesteps
MaxDim == 5         \* largest dim asked of timestep_embedding
MaxConStacks == 3   \* longest tuple given to the constructor with its hyperparameters
MaxShards == 2      \* shard indices 0..MaxShards-1 may have a source manifest
MaxJobs == 2        \* largest --num-jobs
MaxLyrBatch == 2

MaxPadT == 5

MaxRank == 3

MaxBypBatch == 2

MaxBypChannels == 2

ScaleMax == 10

InitialScale == 5

MaxMaskT == 5

Precision == 8

MaxLayers == 5

MaxWarmup == 6

MaskFill == -1000   \* the score written over a masked entry

Min(a, b) == IF a < b THEN a ELSE b
Max(a, b) == IF a < b THEN b ELSE a

RECURSIVE SeqsUpTo(_, _)
\* every tuple over S of length n
SeqsUpTo(S, n) ==
    IF n = 0 THEN {<<>>}
    ELSE LET shorter == SeqsUpTo(S, n - 1)
         IN  shorter \cup {Append(s, x) : s \in {q \in shorter : Len(q) = n - 1}, x \in S}

(***************************************************************************)
(* Python slicing of one axis.                                             *)
(***************************************************************************)
StrideBlockEnds(seq, step) ==
    LET idx == {i \in 0..(Len(seq) - 1) : i % step = 0}
    IN  [j \in 1..Cardinality(idx) |-> seq[Min(j * step, Len(seq))]]

\* seq[::step]: the entries at the 0-based indexes 0, step, 2*step, ... below len
Stride(seq, step) ==
    LET idx == {i \in 0..(Len(seq) - 1) : i % step = 0}
    IN  [j \in 1..Cardinality(idx) |-> seq[(j - 1) * step + 1]]

\* seq[:n] for n >= 0
Prefix(seq, n) == SubSeq(seq, 1, Min(n, Len(seq)))

\* a tensor (time, batch, channels) with the frames 1..T on its time axis
Tensor(T, B, C) == [time |-> [i \in 1..T |-> i], batch |-> B, chan |-> C]

(***************************************************************************)
(* TTSZipformer.__init__._assert_downsampling_factor: "ok", or the         *)
(* exception the check raises.  factors[0] of an empty tuple raises        *)
(* IndexError before any assert is evaluated.                              *)
(***************************************************************************)
AssertNoLastCheck(factors) ==
    LET n == Len(factors)
    IN  IF n = 0 THEN "IndexError"
        ELSE IF factors[1] # 1 THEN "AssertionError"
        ELSE IF \E i \in 1..(n \div 2) : factors[i + 1] # factors[i] * 2
             THEN "AssertionError"
        ELSE IF \E i \in (n \div 2 + 1)..(n - 1) : factors[i + 1] * 2 # factors[i]
             THEN "AssertionError"
        ELSE "ok"

AssertNoDescent(factors) ==
    LET n == Len(factors)
    IN  IF n = 0 THEN "IndexError"
        ELSE IF ~(factors[1] = 1 /\ factors[n] = 1) THEN "AssertionError"
        ELSE IF \E i \in 1..(n \div 2) : factors[i + 1] # factors[i] * 2
             THEN "AssertionError"
        ELSE "ok"

assert_downsampling_factor(factors) ==
    LET n == Len(factors)
    IN  IF n = 0 THEN "IndexError"
        ELSE IF ~(factors[1] = 1 /\ factors[n] = 1) THEN "AssertionError"
        ELSE IF \E i \in 1..(n \div 2) : factors[i + 1] # factors[i] * 2
             THEN "AssertionError"
        ELSE IF \E i \in (n \div 2 + 1)..(n - 1) : factors[i + 1] * 2 # factors[i]
             THEN "AssertionError"
        ELSE "ok"

(***************************************************************************)
(* SimpleDownsample.forward: right-pad with the last frame to a multiple   *)
(* of ds, reshape to blocks of ds frames, weighted sum of each block.  A   *)
(* downsampled frame is modelled by the block of frames it sums.           *)
(***************************************************************************)
DSeqLenFloor(seq_len, ds) == seq_len \div ds

DSeqLen(seq_len, ds) == (seq_len + ds - 1) \div ds

SimpleDownsample_forward(src, ds) ==
    LET seq_len == Len(src.time)
        d_seq_len == DSeqLen(seq_len, ds)
        pad == d_seq_len * ds - seq_len
        src_extra == [k \in 1..pad |-> src.time[seq_len]]
        padded == src.time \o src_extra
    IN  IF pad < 0 \/ Len(padded) # d_seq_len * ds
        THEN [ok |-> FALSE, val |-> src]
        ELSE [ok |-> TRUE,
              val |-> [src EXCEPT !.time =
                          [j \in 1..d_seq_len |-> SubSeq(padded, (j - 1) * ds + 1, j * ds)]]]

(***************************************************************************)
(* SimpleUpsample.forward: every frame repeated `upsample` times.          *)
(***************************************************************************)
SimpleUpsample_forward(src, upsample) ==
    [src EXCEPT !.time =
        [i \in 1..(Len(src.time) * upsample) |-> src.time[((i - 1) \div upsample) + 1]]]

(***************************************************************************)
(* BypassModule.forward: src_orig + (src - src_orig) * bypass_scale.  The  *)
(* two operands must broadcast: equal time lengths, or one of length 1.    *)
(***************************************************************************)
BypassModule_forward(src_orig, src) ==
    LET a == Len(src_orig.time)
        b == Len(src.time)
    IN  IF a = b \/ b = 1
        THEN [ok |-> src.batch = src_orig.batch /\ src.chan = src_orig.chan,
              val |-> src_orig]
        ELSE IF a = 1
        THEN [ok |-> src.batch = src_orig.batch /\ src.chan = src_orig.chan,
              val |-> [src_orig EXCEPT !.time = [i \in 1..b |-> src_orig.time[1]]]]
        ELSE [ok |-> FALSE, val |-> src_orig]

(***************************************************************************)
(* Zipformer2Encoder.forward, as far as shapes go.  time_emb is None       *)
(* (<<>>) or a shape (batch, dim) or (time, batch, dim); the mask is None  *)
(* (<<>>) or a shape (batch, time).  Every layer returns the shape of its  *)
(* input; the assertions and broadcasts that can fail are                  *)
(*   key_padding_mask.shape == (batch_size, seq_len)   (attention weights) *)
(*   src + time_emb                                     (encoder layer)    *)
(***************************************************************************)
Zipformer2Encoder_forward(src, time_emb, src_key_padding_mask) ==
    LET seq_len == Len(src.time)
        mask_ok == \/ src_key_padding_mask = <<>>
                   \/ src_key_padding_mask = <<src.batch, seq_len>>
        emb_ok == \/ time_emb = <<>>
                  \/ Len(time_emb) = 2 /\ time_emb[1] \in {1, src.batch}
                  \/ /\ Len(time_emb) = 3
                     /\ time_emb[1] \in {1, seq_len}
                     /\ time_emb[2] \in {1, src.batch}
    IN  [ok |-> mask_ok /\ emb_ok, val |-> src]

(***************************************************************************)
(* DownsampledZipformer2Encoder.forward.                                   *)
(***************************************************************************)
\* time_emb[::ds] of a rank-3 time embedding; a rank-2 one is passed on as it is
StrideTimeEmb(time_emb, ds) ==
    IF Len(time_emb) = 3
    THEN <<Len(Stride([i \in 1..time_emb[1] |-> i], ds)), time_emb[2], time_emb[3]>>
    ELSE time_emb

StrideMaskWholeBlocks(mask, ds) ==
    IF mask = <<>> THEN mask
    ELSE <<mask[1], mask[2] \div ds>>

\* src_key_padding_mask[..., ::ds]
StrideMask(mask, ds) ==
    IF mask = <<>> THEN mask
    ELSE <<mask[1], Len(Stride([i \in 1..mask[2] |-> i], ds))>>

NoTruncate(src, n) == src

\* src[: src_orig.shape[0]]
Truncate(src, n) == [src EXCEPT !.time = Prefix(src.time, n)]

DownsampledZipformer2Encoder_forward(src_orig, ds, time_emb, src_key_padding_mask) ==
    LET down == SimpleDownsample_forward(src_orig, ds)
        enc == Zipformer2Encoder_forward(down.val, StrideTimeEmb(time_emb, ds),
                                         StrideMask(src_key_padding_mask, ds))
        up == SimpleUpsample_forward(enc.val, ds)
        cut == Truncate(up, Len(src_orig.time))
        out == BypassModule_forward(src_orig, cut)
    IN  [ok |-> down.ok /\ enc.ok /\ out.ok, val |-> out.val, cut |-> cut]

(***************************************************************************)
(* RelPositionMultiheadAttentionWeights.forward, lines 1263-1298: the      *)
(* masks and the softmax, for one head and one batch entry (the masks      *)
(* broadcast over heads; every batch entry is treated alike).              *)
(* A score matrix is a function [1..T -> [1..T -> Int]], target first.     *)
(***************************************************************************)
RECURSIVE SumSeq(_)
SumSeq(q) == IF q = <<>> THEN 0 ELSE q[1] + SumSeq(Tail(q))

RECURSIVE MaxSeq(_)
MaxSeq(q) == IF Len(q) = 1 THEN q[1] ELSE Max(q[1], MaxSeq(Tail(q)))

RECURSIVE Pow2(_)
Pow2(n) == IF n = 0 THEN 1 ELSE 2 * Pow2(n - 1)

\* exp(d) for d <= 0 in floating point, in units of its smallest positive
\* value: exactly 0 once d is below the underflow range
Exp(d) == IF d < -UnderflowGap THEN 0 ELSE Pow2(UnderflowGap + d)

\* scaling.softmax along the source axis: exp(x - max) / sum(exp(x - max)),
\* a weight being the fraction num / den
Softmax(row) ==
    LET m == MaxSeq(row)
        e == [s \in 1..Len(row) |-> Exp(row[s] - m)]
    IN  [s \in 1..Len(row) |-> [num |-> e[s], den |-> SumSeq(e)]]

\* whether (tgt, src) is excluded by the attention mask or the padding mask
Masked(attn_mask, key_padding_mask, t, s) ==
    \/ attn_mask.kind # "none" /\ attn_mask.m[t][s]
    \/ key_padding_mask.kind # "none" /\ key_padding_mask.m[s]

MaskedFillZero(scores, mask, has_mask) ==
    [t \in DOMAIN scores |-> [s \in DOMAIN scores[t] |->
        IF has_mask /\ mask[t][s] THEN 0 ELSE scores[t][s]]]

\* attn_scores.masked_fill(mask, -1000)
MaskedFill(scores, mask, has_mask) ==
    [t \in DOMAIN scores |-> [s \in DOMAIN scores[t] |->
        IF has_mask /\ mask[t][s] THEN MaskFill ELSE scores[t][s]]]

\* lines 1265-1298; dropout with p = self.dropout = 0.0 (line 368) is the identity
AttentionWeights(scores, attn_mask, key_padding_mask) ==
    LET T == Len(scores)
        a == MaskedFill(scores, attn_mask.m, attn_mask.kind # "none")
        \* key_padding_mask.unsqueeze(1): the same row for every target
        k == MaskedFill(a, [t \in 1..T |-> key_padding_mask.m],
                        key_padding_mask.kind # "none")
    IN  [t \in 1..T |-> Softmax(k[t])]

(***************************************************************************)
(* RelPositionMultiheadAttentionWeights.forward, lines 1199-1242: whether  *)
(* the positional scores are used, and the conversion of their last axis   *)
(* from relative offset to absolute source position.                       *)
(*                                                                         *)
(* pos_scores = matmul(p, pos_emb) is a contiguous tensor of shape         *)
(* (head, batch, time1, 2*seq_len-1).  Its storage is a flat sequence; the *)
(* element at [h, b, t, c] is modelled by <<h, b, t, offset>>, offset      *)
(* being the relative offset that row c of pos_emb encodes.  Indexes are   *)
(* 0-based as in the code.                                                 *)
(***************************************************************************)
\* line 987 and lines 1040-1046: row c of pos_emb encodes offset c - (T - 1)
PosEmbOffset(T, c) == c - (T - 1)

\* the strides of a contiguous tensor of shape (H, B, T, n)
ContiguousStride(H, B, T, n) == <<B * T * n, T * n, n, 1>>

\* line 1216: the storage of pos_scores
PosScoresStorage(H, B, T) ==
    LET n == 2 * T - 1
    IN  [f \in 1..(H * B * T * n) |->
            LET g == f - 1
            IN  <<g \div (B * T * n), (g \div (T * n)) % B, (g \div n) % T,
                  PosEmbOffset(T, g % n)>>]

\* storage.as_strided(size, stride, storage_offset) at [h, b, t, s]; a read
\* outside the storage is marked
AsStrided(storage, stride, storage_offset, h, b, t, s) ==
    LET f == storage_offset + h * stride[1] + b * stride[2] + t * stride[3] + s * stride[4]
    IN  IF f + 1 \in DOMAIN storage THEN storage[f + 1] ELSE <<"out of storage">>

RelToAbsNoOffset(H, B, T) ==
    LET st == ContiguousStride(H, B, T, 2 * T - 1)
        storage == PosScoresStorage(H, B, T)
    IN  [x \in (0..(H - 1)) \X (0..(B - 1)) \X (0..(T - 1)) \X (0..(T - 1)) |->
            AsStrided(storage, <<st[1], st[2], st[3] - st[4], st[4]>>, 0,
                      x[1], x[2], x[3], x[4])]

\* lines 1231-1240: the as_strided view
RelToAbsStrided(H, B, T) ==
    LET st == ContiguousStride(H, B, T, 2 * T - 1)
        storage == PosScoresStorage(H, B, T)
    IN  [x \in (0..(H - 1)) \X (0..(B - 1)) \X (0..(T - 1)) \X (0..(T - 1)) |->
            AsStrided(storage, <<st[1], st[2], st[3] - st[4], st[4]>>,
                      st[4] * (T - 1), x[1], x[2], x[3], x[4])]

RelToAbsGatherAscending(H, B, T) ==
    LET n == 2 * T - 1
        storage == PosScoresStorage(H, B, T)
        rows == [r \in 0..(H * B * T - 1) |-> r % T]
        indexes == [r \in 0..(H * B * T - 1) |-> [c \in 0..(T - 1) |-> rows[r] + c]]
        gathered == [r \in 0..(H * B * T - 1) |-> [c \in 0..(T - 1) |->
                        storage[r * n + indexes[r][c] + 1]]]
    IN  [x \in (0..(H - 1)) \X (0..(B - 1)) \X (0..(T - 1)) \X (0..(T - 1)) |->
            gathered[(x[1] * B + x[2]) * T + x[3]][x[4]]]

\* lines 1222-1229: the gather used under tracing
RelToAbsGather(H, B, T) ==
    LET n == 2 * T - 1
        storage == PosScoresStorage(H, B, T)
        \* rows = arange(time1 - 1, -1, -1).repeat(batch_size * num_heads)
        rows == [r \in 0..(H * B * T - 1) |-> (T - 1) - (r % T)]
        \* indexes = rows.unsqueeze(-1) + arange(seq_len)
        indexes == [r \in 0..(H * B * T - 1) |-> [c \in 0..(T - 1) |-> rows[r] + c]]
        \* pos_scores.reshape(-1, n) gathered along dim 1
        gathered == [r \in 0..(H * B * T - 1) |-> [c \in 0..(T - 1) |->
                        storage[r * n + indexes[r][c] + 1]]]
    IN  \* reshape(num_heads, batch_size, time1, seq_len)
        [x \in (0..(H - 1)) \X (0..(B - 1)) \X (0..(T - 1)) \X (0..(T - 1)) |->
            gathered[(x[1] * B + x[2]) * T + x[3]][x[4]]]

\* lines 1199-1204: random.random() >= float(self.pos_emb_skip_rate) is
\* evaluated only in training and outside tracing
UsePosScores(training, tracing, draw, pos_emb_skip_rate) ==
    IF tracing THEN TRUE
    ELSE ~training \/ draw >= pos_emb_skip_rate

(***************************************************************************)
(* CompactRelPositionalEncoding.  A row of the table self.pe is modelled   *)
(* by the offset it encodes and by whether its values were rounded to a    *)
(* narrower dtype since they were computed (lines 987-1022 compute them in *)
(* float32, as a function of the offset alone).                            *)
(***************************************************************************)
PeRow(offset) == [off |-> offset, rounded |-> FALSE]

\* tensor.to(dtype): float32 -> float16 rounds every value that float16 cannot
\* hold; the row of offset 0 holds only 0.0 and 1.0 and is kept exactly;
\* float16 -> float32 keeps the rounded values.
ToDtype(pe, from, to) ==
    IF from = "float32" /\ to = "float16"
    THEN [i \in 1..Len(pe) |-> IF pe[i].off = 0 THEN pe[i]
                                                 ELSE [pe[i] EXCEPT !.rounded = TRUE]]
    ELSE pe

\* line 982: self.pe.size(0) >= T * 2 - 1
Covered(size, T) == size >= T * 2 - 1

\* extend_pe(x) for x of T frames and dtype x_dtype; pe = <<>> is self.pe = None
extend_pe(pe, pe_dtype, T, x_dtype) ==
    IF pe # <<>> /\ Covered(Len(pe), T)
    THEN [pe |-> ToDtype(pe, pe_dtype, x_dtype), dtype |-> x_dtype,
          regenerated |-> FALSE]
    ELSE \* x = arange(-(T - 1), T); pe.to(dtype=x.dtype) with that x: float32
         [pe |-> [i \in 1..(2 * T - 1) |-> PeRow(i - T)], dtype |-> "float32",
          regenerated |-> TRUE]

\* seq[a:b] of Python, for b >= 0; a negative a counts from the end
PySlice(seq, a, b) ==
    LET n == Len(seq)
        lo == IF a < 0 THEN Max(a + n, 0) ELSE Min(a, n)
        hi == Min(b, n)
    IN  SubSeq(seq, lo + 1, hi)

PosEmbSliceNoPlusOne(pe, T) == PySlice(pe, Len(pe) \div 2 - T, Len(pe) \div 2 + T)

\* lines 1040-1046, with left_context_len = 0
PosEmbSlice(pe, T) == PySlice(pe, Len(pe) \div 2 - T + 1, Len(pe) \div 2 + T)

(***************************************************************************)
(* Zipformer2EncoderLayer.forward and BypassModule._get_bypass_scale: the  *)
(* decisions that depend on self.training, on tracing and on random draws. *)
(* A rate and a draw (random.random(), torch.rand) are in thousandths; a   *)
(* per-sequence mask is a sequence of 0/1 over the batch, and NoMask is    *)
(* the None of the code.                                                   *)
(***************************************************************************)
NoMask == <<>>

\* lines 510-515, 565-568, 581-584, 602-605, 618-621
ResolveSkipRate(training, tracing, rate) ==
    IF tracing THEN 0
    ELSE IF training THEN rate ELSE 0

\* lines 456-468
get_sequence_dropout_mask(training, tracing, dropout_rate, rand) ==
    IF dropout_rate = 0 \/ ~training \/ tracing
    THEN NoMask
    ELSE [b \in 1..Len(rand) |-> IF rand[b] > dropout_rate THEN 1 ELSE 0]

\* lines 535-537
UseConstAttention(training, tracing, draw, const_attention_rate) ==
    IF tracing THEN FALSE
    ELSE training /\ draw < const_attention_rate

\* lines 1244-1246
PenalizeScores(training, tracing, draw) ==
    IF tracing THEN FALSE
    ELSE training /\ draw < PenaltyProb

\* lines 1289-1292: the draw decides only whether the entropy is logged
PrintAttnEntropy(training, tracing, draw) ==
    IF tracing THEN FALSE
    ELSE draw < LogProb /\ ~training

\* lines 1294-1296: nn.functional.dropout(attn_weights, p, training) zeroes
\* the entries whose draw is below p, in training only
AttnDropout(training, p, rand) ==
    IF training /\ p > 0
    THEN [b \in 1..Len(rand) |-> IF rand[b] < p THEN 0 ELSE 1]
    ELSE NoMask

\* FeedforwardModule.out_proj (line 1408): the dropout of
\* ActivationDropoutAndLinear is applied in training only
ActivationDropout(training, dropout_p, rand) ==
    IF training /\ dropout_p > 0
    THEN [b \in 1..Len(rand) |-> IF rand[b] < dropout_p THEN 0 ELSE 1]
    ELSE NoMask

BypassScaleNoTrainingCheck(training, tracing, skip_rate, straight_through_rate, rand) ==
    IF tracing
    THEN [scale |-> "bypass_scale", skip |-> NoMask, straight |-> NoMask]
    ELSE [scale |-> "limited",
          skip |-> IF skip_rate # 0
                   THEN [b \in 1..Len(rand.skip) |->
                            IF rand.skip[b] > skip_rate THEN 1 ELSE 0]
                   ELSE NoMask,
          straight |-> IF straight_through_rate # 0
                       THEN [b \in 1..Len(rand.straight) |->
                                IF rand.straight[b] < straight_through_rate THEN 1 ELSE 0]
                       ELSE NoMask]

\* lines 762-788: the scale on the non-residual term; "limited" is the
\* parameter passed through limit_param_value
get_bypass_scale(training, tracing, skip_rate, straight_through_rate, rand) ==
    IF tracing \/ ~training
    THEN [scale |-> "bypass_scale", skip |-> NoMask, straight |-> NoMask]
    ELSE [scale |-> "limited",
          skip |-> IF skip_rate # 0
                   THEN [b \in 1..Len(rand.skip) |->
                            IF rand.skip[b] > skip_rate THEN 1 ELSE 0]
                   ELSE NoMask,
          straight |-> IF straight_through_rate # 0
                       THEN [b \in 1..Len(rand.straight) |->
                                IF rand.straight[b] < straight_through_rate THEN 1 ELSE 0]
                       ELSE NoMask]

(***************************************************************************)
(* The draws a call makes: the calls of random.random(), which read and    *)
(* advance Python's global generator, and the calls of torch.rand and of   *)
(* dropout in training, which read and advance the torch generator.  `and` *)
(* and `or` evaluate their right operand only when the left one does not   *)
(* decide.                                                                 *)
(***************************************************************************)
\* lines 1199-1204: `not self.training or random.random() >= ...`
UsePosScoresDraws(training, tracing) ==
    IF tracing THEN 0
    ELSE IF ~training THEN 0 ELSE 1

\* lines 1244-1246: `self.training and random.random() < 0.1`
PenalizeScoresDraws(training, tracing) ==
    IF tracing THEN 0
    ELSE IF training THEN 1 ELSE 0

PrintAttnEntropyDrawsInTraining(training, tracing) ==
    IF tracing THEN 0
    ELSE IF training THEN 1 ELSE 0

\* lines 1289-1292: `random.random() < 0.001 and not self.training`, the draw
\* being the left operand
PrintAttnEntropyDraws(training, tracing) ==
    IF tracing THEN 0 ELSE 1

\* lines 535-537: `self.training and random.random() < float(...)`
UseConstAttentionDraws(training, tracing) ==
    IF tracing THEN 0
    ELSE IF training THEN 1 ELSE 0

\* one call of torch.rand or of dropout for a mask that is not None
Drawn(mask) == IF mask # NoMask THEN 1 ELSE 0

(***************************************************************************)
(* timestep_embedding.  An entry of the result is modelled by the function *)
(* applied, the timestep it is applied to and the index of the frequency;  *)
(* max_period changes the frequencies, not their indices.  A tensor of     *)
(* rank 1 is a sequence of timesteps, one of rank 2 a sequence (over N) of *)
(* sequences (over T).                                                     *)
(***************************************************************************)
ZeroEntry == [fn |-> "zero", t |-> 0, k |-> 0]

\* lines 59-60: cat([cos(args), sin(args)]) for one timestep t
CosSin(t, half) ==
    [j \in 1..(2 * half) |->
        IF j <= half THEN [fn |-> "cos", t |-> t, k |-> j - 1]
                     ELSE [fn |-> "sin", t |-> t, k |-> j - half - 1]]

\* lines 61-62: zeros_like(embedding[..., :1]) has as many columns as the
\* slice, which is none when embedding has none
PadOdd(row, dim) ==
    IF dim % 2 = 1
    THEN row \o [j \in 1..Min(1, Len(row)) |-> ZeroEntry]
    ELSE row

EmbeddingRow(t, dim) == PadOdd(CosSin(t, dim \div 2), dim)

TimestepEmbeddingOfFirst(timesteps, rank, dim) ==
    IF rank = 2
    THEN [t \in 1..Len(timesteps[1]) |->
            [n \in 1..Len(timesteps) |-> EmbeddingRow(timesteps[1][t], dim)]]
    ELSE [n \in 1..Len(timesteps) |-> EmbeddingRow(timesteps[1], dim)]

\* lines 46-63; a rank-2 input (N, T) is transposed to (T, N) first
timestep_embedding(timesteps, rank, dim) ==
    IF rank = 2
    THEN [t \in 1..Len(timesteps[1]) |->
            [n \in 1..Len(timesteps) |-> EmbeddingRow(timesteps[n][t], dim)]]
    ELSE [n \in 1..Len(timesteps) |-> EmbeddingRow(timesteps[n], dim)]

(***************************************************************************)
(* TTSZipformer.__init__: the checks of the hyperparameters.  An argument  *)
(* that may be an int or a tuple is [is_int, val], val being <<x>> for the *)
(* int x.                                                                  *)
(***************************************************************************)
IntArg(x) == [is_int |-> TRUE, val |-> <<x>>]

TupleArg(x) == [is_int |-> FALSE, val |-> x]

Repeat(v, n) == [i \in 1..n |-> v]

ToTupleNoLengthCheck(x, n) ==
    IF Len(x.val) = 1 THEN [ok |-> TRUE, val |-> Repeat(x.val[1], n)]
    ELSE [ok |-> TRUE, val |-> x.val]

\* lines 132-141: _to_tuple(x), n being len(downsampling_factor)
to_tuple(x, n) ==
    LET t == x.val      \* (x,) for an int
    IN  IF Len(t) = 1 THEN [ok |-> TRUE, val |-> Repeat(t[1], n)]
        ELSE IF Len(t) = n THEN [ok |-> TRUE, val |-> t]
        ELSE [ok |-> FALSE, val |-> t]

ConvolutionModuleInitNoCheck(kernel_size) == "ok"

\* ConvolutionModule.__init__, lines 1558 and 1597
ConvolutionModule_init(kernel_size) ==
    IF (kernel_size - 1) % 2 = 0 /\ kernel_size % 2 = 1 THEN "ok" ELSE "AssertionError"

\* Zipformer2EncoderLayer.__init__, lines 389-394: the two convolution
\* modules are built only with use_conv
Zipformer2EncoderLayer_init(use_conv, cnn_module_kernel) ==
    IF use_conv THEN ConvolutionModule_init(cnn_module_kernel) ELSE "ok"

\* CompactRelPositionalEncoding.__init__, line 968
CompactRelPositionalEncoding_init(embed_dim) ==
    IF embed_dim % 2 = 0 THEN "ok" ELSE "AssertionError"

\* Zipformer2Encoder.__init__, lines 665-685: the positional encoding, then
\* delta = (1.0 / num_layers) * (warmup_end - warmup_begin)
Zipformer2Encoder_init(num_layers, pos_dim) ==
    IF CompactRelPositionalEncoding_init(pos_dim) # "ok" THEN "AssertionError"
    ELSE IF num_layers = 0 THEN "ZeroDivisionError"
    ELSE "ok"

(***************************************************************************)
(* compute_fbank.py.  The files are [src_dir, raw, whole, out_dir, files]: *)
(* whether the source directory exists, the shard indices that have a      *)
(* source manifest, the source manifests of the whole subset ("cuts",      *)
(* "rec_sup" or "none"), whether the destination directory exists, and the *)
(* files in it, <<"cuts", idx>> being the manifest and <<"feats", idx>>    *)
(* the features of shard idx (Whole for the whole subset).  `extraction`   *)
(* is what the feature extraction of lhotse does when it is reached: "ok", *)
(* "raise" before it writes, or "raise_partial" after it wrote features.   *)
(* The outcome of a job is "no_src_dir", "no_raw" or "exists" when it      *)
(* returns early, "extracted" when it wrote the manifest, and "raised",    *)
(* "not_implemented" or "load_error" when it raised.                       *)
(***************************************************************************)
Raises == {"raised", "not_implemented", "load_error"}

Whole == -1

Extractions == {"ok", "raise", "raise_partial"}

ExtractAndSaveManifestFirst(fs, idx, extraction) ==
    IF extraction = "ok"
    THEN [fs |-> [fs EXCEPT !.files = @ \cup {<<"feats", idx>>, <<"cuts", idx>>}],
          outcome |-> "extracted"]
    ELSE IF extraction = "raise_partial"
    THEN [fs |-> [fs EXCEPT !.files = @ \cup {<<"feats", idx>>, <<"cuts", idx>>}],
          outcome |-> "raised"]
    ELSE [fs |-> [fs EXCEPT !.files = @ \cup {<<"cuts", idx>>}], outcome |-> "raised"]

\* compute_and_store_features(_batch), then cut_set.to_file
ExtractAndSave(fs, idx, extraction) ==
    IF extraction = "ok"
    THEN [fs |-> [fs EXCEPT !.files = @ \cup {<<"feats", idx>>, <<"cuts", idx>>}],
          outcome |-> "extracted"]
    ELSE IF extraction = "raise_partial"
    THEN [fs |-> [fs EXCEPT !.files = @ \cup {<<"feats", idx>>}], outcome |-> "raised"]
    ELSE [fs |-> fs, outcome |-> "raised"]

SplitSingleNoSkip(fs, type, idx, extraction) ==
    IF ~fs.src_dir THEN [fs |-> fs, outcome |-> "no_src_dir"]
    ELSE LET made == [fs EXCEPT !.out_dir = TRUE]
         IN  IF type # "vocos" THEN [fs |-> made, outcome |-> "not_implemented"]
             ELSE IF idx \notin fs.raw THEN [fs |-> made, outcome |-> "no_raw"]
             ELSE ExtractAndSave(made, idx, extraction)

SplitSingleLoadsUnchecked(fs, type, idx, extraction) ==
    IF ~fs.src_dir THEN [fs |-> fs, outcome |-> "no_src_dir"]
    ELSE LET made == [fs EXCEPT !.out_dir = TRUE]
         IN  IF type # "vocos" THEN [fs |-> made, outcome |-> "not_implemented"]
             ELSE IF idx \notin fs.raw THEN [fs |-> made, outcome |-> "load_error"]
             ELSE IF <<"cuts", idx>> \in fs.files THEN [fs |-> made, outcome |-> "exists"]
             ELSE ExtractAndSave(made, idx, extraction)

\* lines 136-189
compute_fbank_split_single(fs, type, idx, extraction) ==
    IF ~fs.src_dir THEN [fs |-> fs, outcome |-> "no_src_dir"]
    ELSE LET made == [fs EXCEPT !.out_dir = TRUE]
         IN  IF type # "vocos" THEN [fs |-> made, outcome |-> "not_implemented"]
             ELSE IF idx \notin fs.raw THEN [fs |-> made, outcome |-> "no_raw"]
             ELSE IF <<"cuts", idx>> \in fs.files THEN [fs |-> made, outcome |-> "exists"]
             ELSE ExtractAndSave(made, idx, extraction)

\* lines 209-259
compute_fbank(fs, type, extraction) ==
    LET made == [fs EXCEPT !.out_dir = TRUE]
    IN  IF fs.whole = "none" THEN [fs |-> made, outcome |-> "load_error"]
        ELSE IF type # "vocos" THEN [fs |-> made, outcome |-> "not_implemented"]
        ELSE IF <<"cuts", Whole>> \in fs.files THEN [fs |-> made, outcome |-> "exists"]
        ELSE ExtractAndSave(made, Whole, extraction)

(***************************************************************************)
(* Zipformer2EncoderLayer.forward, the attention weights and the skip      *)
(* mask.  A row of attention weights is [num, den]: the weight of source   *)
(* position j is num[j] / den.  attn_weights[h][b] is the matrix of head   *)
(* h and sequence b, one row for each target position.                     *)
(***************************************************************************)
\* lines 542-544: (selected_attn_weights > 0.0).to(dtype)
Positive(row) == [j \in 1..Len(row.num) |-> IF row.num[j] > 0 THEN 1 ELSE 0]

ConstAttentionAllPositions(selected_attn_weights) ==
    [h \in 1..Len(selected_attn_weights) |->
        [b \in 1..Len(selected_attn_weights[h]) |->
            [i \in 1..Len(selected_attn_weights[h][b]) |->
                [num |-> [j \in 1..Len(selected_attn_weights[h][b][i].num) |-> 1],
                 den |-> Len(selected_attn_weights[h][b][i].num)]]]]

\* lines 541-548: the mask of the positive weights, times 1.0 / its row sum
ConstAttentionWeights(selected_attn_weights) ==
    [h \in 1..Len(selected_attn_weights) |->
        [b \in 1..Len(selected_attn_weights[h]) |->
            [i \in 1..Len(selected_attn_weights[h][b]) |->
                [num |-> Positive(selected_attn_weights[h][b][i]),
                 den |-> SumSeq(Positive(selected_attn_weights[h][b][i]))]]]]

\* lines 534-548: attn_weights[0:1], made constant when the draw says so
SelectedAttnWeights(attn_weights, const_attention) ==
    IF const_attention
    THEN ConstAttentionWeights(SubSeq(attn_weights, 1, 1))
    ELSE SubSeq(attn_weights, 1, 1)

SkipNever(B, self_attn_dropout_mask) == [b \in 1..B |-> 1]

\* lines 552-554, 558-562, 594-598: `out if mask is None else out * mask`,
\* as the factor that multiplies the module's output for each sequence
SkipFactor(B, self_attn_dropout_mask) ==
    IF self_attn_dropout_mask = NoMask
    THEN [b \in 1..B |-> 1]
    ELSE self_attn_dropout_mask

(***************************************************************************)
(* Floating-point arithmetic of Zipformer2Encoder.__init__, on binary      *)
(* floats of Precision significant bits, rounded to nearest, ties to even. *)
(* A float is [m, e], the number m * 2^e, with m = 0 and e = 0 for zero    *)
(* and 2^(Precision-1) <= m < 2^Precision otherwise.                       *)
(***************************************************************************)
RECURSIVE Shift(_)
\* the number of low bits an integer mantissa n has too many
Shift(n) == IF n < Pow2(Precision) THEN 0 ELSE 1 + Shift(n \div 2)

RECURSIVE FloatRound(_, _)
\* the float nearest to n * 2^e, for an integer n >= 0
FloatRound(n, e) ==
    IF n = 0 THEN [m |-> 0, e |-> 0]
    ELSE IF n < Pow2(Precision - 1) THEN FloatRound(2 * n, e - 1)
    ELSE LET k == Shift(n)
             q == n \div Pow2(k)
             r == n % Pow2(k)
             up == 2 * r > Pow2(k) \/ (2 * r = Pow2(k) /\ q % 2 = 1)
             m == IF up THEN q + 1 ELSE q
         IN  IF m = Pow2(Precision)
             THEN [m |-> Pow2(Precision - 1), e |-> e + k + 1]
             ELSE [m |-> m, e |-> e + k]

\* the integer a.m * 2^(a.e - e), for e <= a.e
Scaled(a, e) == IF a.m = 0 THEN 0 ELSE a.m * Pow2(a.e - e)

FloatAdd(a, b) ==
    LET e == Min(a.e, b.e) IN FloatRound(Scaled(a, e) + Scaled(b, e), e)

\* a - b for a >= b
FloatSub(a, b) ==
    LET e == Min(a.e, b.e) IN FloatRound(Scaled(a, e) - Scaled(b, e), e)

FloatMul(a, b) == FloatRound(a.m * b.m, a.e + b.e)

FloatLe(a, b) ==
    LET e == Min(a.e, b.e) IN Scaled(a, e) <= Scaled(b, e)

RECURSIVE RecipShift(_, _)
\* the least s with 2^s \div n >= 2^(Precision-1)
RecipShift(n, s) ==
    IF Pow2(s) \div n >= Pow2(Precision - 1) THEN s ELSE RecipShift(n, s + 1)

\* line 683: 1.0 / num_layers for an int num_layers > 0
FloatRecip(n) ==
    LET s == RecipShift(n, 0)
        q == Pow2(s) \div n
        r == Pow2(s) % n
        up == 2 * r > n \/ (2 * r = n /\ q % 2 = 1)
        m == IF up THEN q + 1 ELSE q
    IN  IF m = Pow2(Precision)
        THEN [m |-> Pow2(Precision - 1), e |-> 1 - s]
        ELSE [m |-> m, e |-> 0 - s]

WarmupDeltaWhole(num_layers, warmup_begin, warmup_end) ==
    FloatSub(warmup_end, warmup_begin)

\* line 683: delta = (1.0 / num_layers) * (warmup_end - warmup_begin)
WarmupDelta(num_layers, warmup_begin, warmup_end) ==
    FloatMul(FloatRecip(num_layers), FloatSub(warmup_end, warmup_begin))

\* lines 687-691: ScheduledFloat((cur_begin, initial), (cur_end, final), default=0.0)
ScheduledFloat(cur_begin, cur_end) ==
    [points |-> << [x |-> cur_begin, y |-> "initial_layerdrop_rate"],
                   [x |-> cur_end, y |-> "final_layerdrop_rate"] >>,
     default |-> 0]

(***************************************************************************)
(* The attention mask in DownsampledZipformer2Encoder.forward.  A mask is  *)
(* None (<<>>), a matrix (T, T) or a tensor (batch, T, T).  It is modelled *)
(* by the indexes it keeps of each axis of the mask the caller passed, so  *)
(* that its entry [i, j] is the caller's entry [mask[1][i], mask[2][j]].   *)
(***************************************************************************)
AttnMask(shape) == [a \in 1..Len(shape) |-> [i \in 1..shape[a] |-> i]]

\* attn_mask.shape
MaskShape(attn_mask) == [a \in 1..Len(attn_mask) |-> Len(attn_mask[a])]

\* lines 847-848: attn_mask[::ds, ::ds] slices the first two axes of the mask
StrideAttnMask(attn_mask, ds) ==
    [a \in 1..Len(attn_mask) |->
        IF a <= 2 THEN Stride(attn_mask[a], ds) ELSE attn_mask[a]]

\* line 1271: attn_scores.masked_fill(attn_mask, -1000) needs a mask that
\* broadcasts to (num_heads, batch_size, seq_len, seq_len)
MaskBroadcasts(shape, batch_size, seq_len) ==
    /\ shape[Len(shape)] \in {1, seq_len}
    /\ shape[Len(shape) - 1] \in {1, seq_len}
    /\ Len(shape) = 3 => shape[1] \in {1, batch_size}

(***************************************************************************)
(* The scale BypassModule.forward multiplies (src - src_orig) by, in       *)
(* tenths: ScaleMax is 1.0.  limit_param_value is the bound of the         *)
(* parameter between min and max.                                          *)
(***************************************************************************)
limit_param_value(x, min, max) == Max(min, Min(x, max))

\* lines 762-796: bypass_scale, broadcast to (batch_size, num_channels)
BypassScale(training, tracing, skip_rate, straight_through_rate, rand, bypass_scale, scale_min, scale_max, batch_size) ==
    LET r == get_bypass_scale(training, tracing, skip_rate, straight_through_rate, rand)
        limited(c) == limit_param_value(bypass_scale[c], scale_min, scale_max)
        skipped(b, c) == IF r.skip = NoMask THEN limited(c) ELSE limited(c) * r.skip[b]
        ans(b, c) == IF r.straight = NoMask THEN skipped(b, c)
                     ELSE Max(skipped(b, c), r.straight[b] * ScaleMax)
    IN  [b \in 1..batch_size |->
            [c \in 1..Len(bypass_scale) |->
                IF r.scale = "bypass_scale" THEN bypass_scale[c] ELSE ans(b, c)]]

(***************************************************************************)
(* TTSZipformer.forward, the time embedding.  A tensor argument is given   *)
(* by its rank, 0 for None.  An embedding is the sequence of the           *)
(* operations that made it, in the order they were applied; None is <<>>.  *)
(***************************************************************************)
\* lines 53-58: torch.arange(start=0, end=half) refuses half < 0
timestep_embedding_error(dim) == IF dim \div 2 < 0 THEN "RuntimeError" ELSE "none"

TimeEmbAddAfterProjection(use_time_embed, use_guidance_scale_embed, time_embed_dim, t, guidance_scale) ==
    IF t = 0 THEN [err |-> "none", time_emb |-> <<>>]
    ELSE IF t \notin {1, 2} THEN [err |-> "AssertionError", time_emb |-> <<>>]
    ELSE IF timestep_embedding_error(time_embed_dim) # "none"
    THEN [err |-> timestep_embedding_error(time_embed_dim), time_emb |-> <<>>]
    ELSE IF guidance_scale # 0 /\ guidance_scale \notin {1, 2}
    THEN [err |-> "AssertionError", time_emb |-> <<>>]
    ELSE IF guidance_scale # 0 /\ ~use_guidance_scale_embed
    THEN [err |-> "TypeError", time_emb |-> <<>>]
    ELSE IF ~use_time_embed THEN [err |-> "TypeError", time_emb |-> <<>>]
    ELSE [err |-> "none",
          time_emb |-> <<"timestep_embedding(t)", "time_embed">>
                       \o (IF guidance_scale # 0
                           THEN <<"timestep_embedding(guidance_scale)",
                                  "guidance_scale_embed", "add">>
                           ELSE <<>>)]

\* lines 259-272: time_emb, or the error raised on the way; self.time_embed
\* and self.guidance_scale_embed are None unless the model was built with
\* use_time_embed and use_guidance_scale_embed (lines 217-234)
TimeEmb(use_time_embed, use_guidance_scale_embed, time_embed_dim, t, guidance_scale) ==
    IF t = 0 THEN [err |-> "none", time_emb |-> <<>>]
    ELSE IF t \notin {1, 2} THEN [err |-> "AssertionError", time_emb |-> <<>>]
    ELSE IF timestep_embedding_error(time_embed_dim) # "none"
    THEN [err |-> timestep_embedding_error(time_embed_dim), time_emb |-> <<>>]
    ELSE IF guidance_scale # 0 /\ guidance_scale \notin {1, 2}
    THEN [err |-> "AssertionError", time_emb |-> <<>>]
    ELSE IF guidance_scale # 0 /\ ~use_guidance_scale_embed
    THEN [err |-> "TypeError", time_emb |-> <<>>]
    ELSE IF ~use_time_embed THEN [err |-> "TypeError", time_emb |-> <<>>]
    ELSE [err |-> "none",
          time_emb |-> <<"timestep_embedding(t)">>
                       \o (IF guidance_scale # 0
                           THEN <<"timestep_embedding(guidance_scale)",
                                  "guidance_scale_embed", "add">>
                           ELSE <<>>)
                       \o <<"time_embed">>]

StackTimeEmbedDimUnchecked(use_time_embed, time_embed_dim) ==
    [err |-> "none", dim |-> IF use_time_embed THEN time_embed_dim ELSE -1]

\* lines 166-169
StackTimeEmbedDim(use_time_embed, time_embed_dim) ==
    IF use_time_embed
    THEN IF time_embed_dim # -1
         THEN [err |-> "none", dim |-> time_embed_dim]
         ELSE [err |-> "AssertionError", dim |-> time_embed_dim]
    ELSE [err |-> "none", dim |-> -1]

EncoderTimeEmbNoCheck(has_time_emb, time_emb) == "none"

\* lines 718-723, Zipformer2Encoder.forward: self.time_emb is a module
\* exactly when the stack was built with time_embed_dim != -1 (lines 668-674)
EncoderTimeEmb(has_time_emb, time_emb) ==
    IF has_time_emb
    THEN IF time_emb # <<>> THEN "none" ELSE "AssertionError"
    ELSE IF time_emb = <<>> THEN "none" ELSE "AssertionError"

(***************************************************************************)
(* The value of a component's variable in the specifications of the other  *)
(* components: nothing was called.                                         *)
(***************************************************************************)
CtorIdle == [factors |-> <<>>, pc |-> "idle", err |-> "none", encoders |-> <<>>]

FwdIdle ==
    [pc |-> "idle", input |-> <<>>, x |-> Tensor(0, 0, 0), i |-> 0,
     time_emb |-> <<>>, mask |-> <<>>, attn_mask |-> "None", calls |-> <<>>,
     out |-> <<>>]

AdaIdle ==
    [pc |-> "idle", ds |-> 1, src_orig |-> Tensor(0, 0, 0), src |-> Tensor(0, 0, 0),
     time_emb |-> <<>>, mask |-> <<>>, padding_orig |-> <<>>, padding |-> <<>>]

AttIdle ==
    [pc |-> "idle", scores |-> <<>>,
     attn_mask |-> [kind |-> "none", m |-> <<>>],
     key_padding_mask |-> [kind |-> "none", m |-> <<>>],
     weights |-> <<>>]

RelIdle ==
    [pc |-> "idle", H |-> 0, B |-> 0, T |-> 0, training |-> FALSE, tracing |-> FALSE,
     use_pos_scores |-> FALSE, pos_scores |-> <<>>]

PecIdle ==
    [pe |-> <<>>, dtype |-> "float32", T |-> 0, x_dtype |-> "float32",
     regenerated |-> FALSE, before |-> <<>>, before_dtype |-> "float32",
     pos_emb |-> <<>>, calls |-> 0]

Unset == -1

RunIdle ==
    [attention_skip_rate |-> Unset, conv_skip_rate |-> Unset, ff2_skip_rate |-> Unset,
     ff3_skip_rate |-> Unset, use_pos_scores |-> FALSE, penalized |-> FALSE,
     const_attention |-> FALSE, logged |-> FALSE, self_attn_dropout_mask |-> NoMask,
     layer_skip |-> NoMask, masked |-> FALSE, random_draws |-> 0, torch_draws |-> 0]

DetIdle ==
    [pc |-> "idle", training |-> FALSE, tracing |-> FALSE, B |-> 0, use_conv |-> FALSE,
     rates |-> <<>>, run |-> <<RunIdle, RunIdle>>, same |-> TRUE]

TseIdle ==
    [pc |-> "idle", rank |-> 1, dim |-> 1, timesteps |-> <<>>, out |-> <<>>,
     perm |-> <<>>, i |-> 0, other |-> <<>>]

ConIdle ==
    [pc |-> "idle", factors |-> <<>>, pos_dim |-> 0, use_conv |-> FALSE,
     use_time_embed |-> FALSE, time_embed_dim |-> 0,
     layers_arg |-> TupleArg(<<>>), kernel_arg |-> TupleArg(<<>>),
     num_encoder_layers |-> <<>>, cnn_module_kernel |-> <<>>,
     encoders |-> <<>>, err |-> "none", at |-> "none"]

NoFiles == [src_dir |-> FALSE, raw |-> {}, whole |-> "none", out_dir |-> FALSE, files |-> {}]

FbIdle ==
    [pc |-> "idle", split_cuts |-> FALSE, split_begin |-> 0, split_end |-> 0,
     num_jobs |-> 0, type |-> "vocos", fs |-> NoFiles, futures |-> <<>>, k |-> 0,
     run |-> 0, fs_start |-> NoFiles]

LyrIdle ==
    [pc |-> "idle", training |-> FALSE, tracing |-> FALSE, B |-> 0, use_conv |-> FALSE,
     attention_skip_rate_attr |-> 0, const_attention_rate |-> 0,
     attn_weights |-> <<>>, attention_skip_rate |-> Unset,
     self_attn_dropout_mask |-> NoMask, const_attention |-> FALSE,
     na_weights |-> <<>>, self_attn1_weights |-> <<>>, self_attn2_weights |-> <<>>,
     na |-> <<>>, self_attn1 |-> <<>>, self_attn2 |-> <<>>, rand_calls |-> 0,
     mask_rand |-> <<>>]

WrmIdle ==
    [pc |-> "idle", num_layers |-> 0, begin |-> 0, end |-> 0,
     warmup_begin |-> [m |-> 0, e |-> 0], warmup_end |-> [m |-> 0, e |-> 0],
     delta |-> [m |-> 0, e |-> 0], cur_begin |-> [m |-> 0, e |-> 0],
     skip_rate |-> <<>>, err |-> "none"]

MskIdle ==
    [pc |-> "idle", ds |-> 1, B |-> 0, T |-> 0, seq_len |-> 0, rank |-> 0,
     attn_mask |-> <<>>, err |-> "none"]

BypIdle ==
    [pc |-> "idle", module |-> "none", training |-> FALSE, tracing |-> FALSE, B |-> 0,
     skip_rate |-> 0, scale_min |-> 0, bypass_scale |-> <<>>, scale |-> <<>>]

TefIdle ==
    [pc |-> "idle", use_time_embed |-> FALSE, use_guidance_scale_embed |-> FALSE,
     time_embed_dim |-> 0, stack_time_embed_dim |-> 0, num_encoders |-> 0,
     t |-> 0, guidance_scale |-> 0, time_emb |-> <<>>, i |-> 0, received |-> <<>>,
     err |-> "none", at |-> "none", returned |-> FALSE]

(***************************************************************************)
(* TTSZipformer.__init__: the schedule is checked first; the encoder       *)
(* stacks are built afterwards, one per entry of downsampling_factor.      *)
(***************************************************************************)
CtorArgs ==
    {[factors |-> f, pc |-> "args", err |-> "none", encoders |-> <<>>] :
        f \in SeqsUpTo(1..MaxFactor, MaxStacks)}

\* line 153: _assert_downsampling_factor(downsampling_factor)
CtorValidate ==
    /\ ctor.pc = "args"
    /\ LET r == assert_downsampling_factor(ctor.factors)
       IN  ctor' = IF r = "ok"
                   THEN [ctor EXCEPT !.pc = "validated"]
                   ELSE [ctor EXCEPT !.pc = "failed", !.err = r]
    /\ UNCHANGED <<fwd, ada, att, rel, pec, det, tse, con, fb, lyr, wrm, msk, byp, tef>>

\* lines 180-216: one pass of the loop that builds stack i; the ModuleList
\* is made after the last pass
CtorBuildEncoder ==
    /\ ctor.pc = "validated"
    /\ LET i == Len(ctor.encoders) + 1
           encoder == [kind |-> IF ctor.factors[i] # 1
                                THEN "DownsampledZipformer2Encoder"
                                ELSE "Zipformer2Encoder",
                       downsample |-> ctor.factors[i]]
       IN  ctor' = [ctor EXCEPT !.encoders = Append(@, encoder),
                                !.pc = IF i = Len(ctor.factors) THEN "built" ELSE @]
    /\ UNCHANGED <<fwd, ada, att, rel, pec, det, tse, con, fb, lyr, wrm, msk, byp, tef>>

(***************************************************************************)
(* TTSZipformer.forward on x of shape (B, T, in_dim), a timestep t of      *)
(* shape (B) or (B, T) and a padding mask of shape (B, T) or None.         *)
(***************************************************************************)
\* the shape timestep_embedding gives t, after the time_embed projection
TimeEmbShape(B, T, tRank) ==
    IF tRank = 1 THEN <<B, TimeEmbedDim>> ELSE <<T, B, TimeEmbedDim>>

\* lines 256-272: permute, in_proj, the time embedding
ForwardBegin ==
    /\ ctor.pc = "built"
    /\ fwd.pc = "idle"
    /\ \E B \in 1..MaxBatch, T \in 1..MaxT, tRank \in {1, 2}, masked \in BOOLEAN :
          fwd' = [fwd EXCEPT !.pc = "stacks",
                             !.input = <<B, T, InDim>>,
                             !.x = Tensor(T, B, EncoderDim),
                             !.i = 1,
                             !.time_emb = TimeEmbShape(B, T, tRank),
                             !.mask = IF masked THEN <<B, T>> ELSE <<>>,
                             !.attn_mask = "None"]
    /\ UNCHANGED <<ctor, ada, att, rel, pec, det, tse, con, fb, lyr, wrm, msk, byp, tef>>

\* what stack `encoder` returns for src
Encoder_forward(encoder, src, time_emb, mask) ==
    IF encoder.kind = "DownsampledZipformer2Encoder"
    THEN DownsampledZipformer2Encoder_forward(src, encoder.downsample, time_emb, mask)
    ELSE Zipformer2Encoder_forward(src, time_emb, mask)

ModuleCallNoMask(i, time_emb, padding_mask, attn_mask) ==
    [module |-> i, time_emb |-> time_emb, src_key_padding_mask |-> <<>>,
     attn_mask |-> attn_mask]

\* lines 277-282: the keyword arguments of the call of self.encoders[i]
ModuleCall(i, time_emb, padding_mask, attn_mask) ==
    [module |-> i, time_emb |-> time_emb, src_key_padding_mask |-> padding_mask,
     attn_mask |-> attn_mask]

\* lines 276-282: one pass of the loop over self.encoders
ForwardStack ==
    /\ fwd.pc = "stacks"
    /\ fwd.i <= Len(ctor.encoders)
    /\ LET call == ModuleCall(fwd.i, fwd.time_emb, fwd.mask, fwd.attn_mask)
           r == Encoder_forward(ctor.encoders[call.module], fwd.x, call.time_emb,
                                call.src_key_padding_mask)
       IN  fwd' = IF r.ok
                  THEN [fwd EXCEPT !.x = r.val, !.i = @ + 1,
                                   !.calls = Append(@, call)]
                  ELSE [fwd EXCEPT !.pc = "error", !.calls = Append(@, call)]
    /\ UNCHANGED <<ctor, ada, att, rel, pec, det, tse, con, fb, lyr, wrm, msk, byp, tef>>

\* lines 283-285: out_proj, permute back to (batch, time, channels)
ForwardEnd ==
    /\ fwd.pc = "stacks"
    /\ fwd.i > Len(ctor.encoders)
    /\ fwd' = [fwd EXCEPT !.pc = "done",
                          !.out = <<fwd.x.batch, Len(fwd.x.time), OutDim>>]
    /\ UNCHANGED <<ctor, ada, att, rel, pec, det, tse, con, fb, lyr, wrm, msk, byp, tef>>

Init ==
    /\ ctor \in CtorArgs
    /\ fwd = FwdIdle
    /\ ada = AdaIdle
    /\ att = AttIdle
    /\ rel = RelIdle
    /\ pec = PecIdle
    /\ det = DetIdle
    /\ tse = TseIdle
    /\ con = ConIdle
    /\ fb = FbIdle
    /\ lyr = LyrIdle
    /\ wrm = WrmIdle
    /\ msk = MskIdle
    /\ byp = BypIdle
    /\ tef = TefIdle

Next ==
    \/ CtorValidate
    \/ CtorBuildEncoder
    \/ ForwardBegin
    \/ ForwardStack
    \/ ForwardEnd

Spec == Init /\ [][Next]_vars

(***************************************************************************)
(* One call of DownsampledZipformer2Encoder.forward with any factor        *)
(* ds >= 1, followed call by call: downsample, inner stack, upsample,      *)
(* truncation and out_combiner.                                            *)
(***************************************************************************)
AdaArgs ==
    {[pc |-> "start", ds |-> ds, src_orig |-> Tensor(T, B, EncoderDim),
      src |-> Tensor(T, B, EncoderDim),
      time_emb |-> IF tRank = 0 THEN <<>> ELSE TimeEmbShape(B, T, tRank),
      mask |-> IF masked THEN <<B, T>> ELSE <<>>,
      padding_orig |-> <<>>, padding |-> <<>>] :
        ds \in 1..MaxDs, T \in 1..MaxT, B \in {1}, tRank \in {0, 1, 2},
        masked \in BOOLEAN}

\* lines 842-850: self.downsample(src) and the strided masks
AdaDownsample ==
    /\ ada.pc = "start"
    /\ LET r == SimpleDownsample_forward(ada.src_orig, ada.ds)
       IN  ada' = IF r.ok
                  THEN [ada EXCEPT !.pc = "down", !.src = r.val,
                                   !.time_emb = StrideTimeEmb(@, ada.ds),
                                   !.mask = StrideMask(@, ada.ds),
                                   !.padding = Stride(@, ada.ds)]
                  ELSE [ada EXCEPT !.pc = "error"]
    /\ UNCHANGED <<ctor, fwd, att, rel, pec, det, tse, con, fb, lyr, wrm, msk, byp, tef>>

\* lines 852-857: self.encoder(...)
AdaEncoder ==
    /\ ada.pc = "down"
    /\ LET r == Zipformer2Encoder_forward(ada.src, ada.time_emb, ada.mask)
       IN  ada' = IF r.ok
                  THEN [ada EXCEPT !.pc = "enc", !.src = r.val]
                  ELSE [ada EXCEPT !.pc = "error"]
    /\ UNCHANGED <<ctor, fwd, att, rel, pec, det, tse, con, fb, lyr, wrm, msk, byp, tef>>

\* line 858: self.upsample(src)
AdaUpsample ==
    /\ ada.pc = "enc"
    /\ ada' = [ada EXCEPT !.pc = "up", !.src = SimpleUpsample_forward(@, ada.ds)]
    /\ UNCHANGED <<ctor, fwd, att, rel, pec, det, tse, con, fb, lyr, wrm, msk, byp, tef>>

\* line 860: src[: src_orig.shape[0]]
AdaTruncate ==
    /\ ada.pc = "up"
    /\ ada' = [ada EXCEPT !.pc = "cut", !.src = Truncate(@, Len(ada.src_orig.time))]
    /\ UNCHANGED <<ctor, fwd, att, rel, pec, det, tse, con, fb, lyr, wrm, msk, byp, tef>>

\* line 862: self.out_combiner(src_orig, src)
AdaCombine ==
    /\ ada.pc = "cut"
    /\ LET r == BypassModule_forward(ada.src_orig, ada.src)
       IN  ada' = IF r.ok
                  THEN [ada EXCEPT !.pc = "done", !.src = r.val]
                  ELSE [ada EXCEPT !.pc = "error"]
    /\ UNCHANGED <<ctor, fwd, att, rel, pec, det, tse, con, fb, lyr, wrm, msk, byp, tef>>

InitAdapter ==
    /\ ctor = CtorIdle
    /\ fwd = FwdIdle
    /\ ada \in AdaArgs
    /\ att = AttIdle
    /\ rel = RelIdle
    /\ pec = PecIdle
    /\ det = DetIdle
    /\ tse = TseIdle
    /\ con = ConIdle
    /\ fb = FbIdle
    /\ lyr = LyrIdle
    /\ wrm = WrmIdle
    /\ msk = MskIdle
    /\ byp = BypIdle
    /\ tef = TefIdle

NextAdapter ==
    \/ AdaDownsample
    \/ AdaEncoder
    \/ AdaUpsample
    \/ AdaTruncate
    \/ AdaCombine

SpecAdapter == InitAdapter /\ [][NextAdapter]_vars

(***************************************************************************)
(* The same call with the entries of the padding mask: padding is the row  *)
(* of src_key_padding_mask of one batch entry, TRUE for a padded frame,    *)
(* and padding_orig the row the adapter was called with.                   *)
(***************************************************************************)
PaddingArgs ==
    {[pc |-> "start", ds |-> ds, src_orig |-> Tensor(Len(m), 1, EncoderDim),
      src |-> Tensor(Len(m), 1, EncoderDim), time_emb |-> <<>>,
      mask |-> <<1, Len(m)>>, padding_orig |-> m, padding |-> m] :
        ds \in 1..MaxDs, m \in SeqsUpTo(BOOLEAN, MaxPadT) \ {<<>>}}

InitPadding ==
    /\ ctor = CtorIdle
    /\ fwd = FwdIdle
    /\ ada \in PaddingArgs
    /\ att = AttIdle
    /\ rel = RelIdle
    /\ pec = PecIdle
    /\ det = DetIdle
    /\ tse = TseIdle
    /\ con = ConIdle
    /\ fb = FbIdle
    /\ lyr = LyrIdle
    /\ wrm = WrmIdle
    /\ msk = MskIdle
    /\ byp = BypIdle
    /\ tef = TefIdle

SpecPadding == InitPadding /\ [][NextAdapter]_vars

(***************************************************************************)
(* One call of RelPositionMultiheadAttentionWeights.forward from the       *)
(* scores on: any attention mask of shape (T, T) or (batch, T, T) or None, *)
(* any key padding mask of shape (batch, T) or None.                       *)
(***************************************************************************)
LowScore == MaskFill + 1

ScoreValues == {0, 1, LowScore}

BoolMatrices(T) == [1..T -> [1..T -> BOOLEAN]]

NoMatrix(T) == [t \in 1..T |-> [s \in 1..T |-> FALSE]]

\* the attention masks a call may be given for length T: None, (T, T), (batch, T, T)
AttnMasks(T) ==
    {[kind |-> "none", m |-> NoMatrix(T)]}
    \cup {[kind |-> kd, m |-> m] : kd \in {"TT", "BTT"}, m \in BoolMatrices(T)}

\* the key padding masks a call may be given for length T: None, (batch, T)
KeyPaddingMasks(T) ==
    {[kind |-> "none", m |-> [s \in 1..T |-> FALSE]]}
    \cup {[kind |-> "BT", m |-> m] : m \in [1..T -> BOOLEAN]}

\* the arguments of one call: the scores of the sources, the same for every target
AttArgs(T, k, am, km) ==
    [pc |-> "args",
     scores |-> [t \in 1..T |-> k],
     attn_mask |-> am,
     key_padding_mask |-> km,
     weights |-> <<>>]

AttForward ==
    /\ att.pc = "args"
    /\ att' = [att EXCEPT !.pc = "done",
                          !.weights = AttentionWeights(att.scores, att.attn_mask,
                                                       att.key_padding_mask)]
    /\ UNCHANGED <<ctor, fwd, ada, rel, pec, det, tse, con, fb, lyr, wrm, msk, byp, tef>>

InitAttention ==
    /\ ctor = CtorIdle
    /\ fwd = FwdIdle
    /\ ada = AdaIdle
    /\ \E T \in 1..MaxAttT :
          \E k \in [1..T -> ScoreValues], am \in AttnMasks(T), km \in KeyPaddingMasks(T) :
              att = AttArgs(T, k, am, km)
    /\ rel = RelIdle
    /\ pec = PecIdle
    /\ det = DetIdle
    /\ tse = TseIdle
    /\ con = ConIdle
    /\ fb = FbIdle
    /\ lyr = LyrIdle
    /\ wrm = WrmIdle
    /\ msk = MskIdle
    /\ byp = BypIdle
    /\ tef = TefIdle

NextAttention == AttForward

SpecAttention == InitAttention /\ [][NextAttention]_vars

(***************************************************************************)
(* One call of RelPositionMultiheadAttentionWeights.forward up to the      *)
(* positional scores.  A draw of random.random() and a rate are counted in *)
(* halves: 0 is 0.0, 1 is 0.5, 2 is 1.0.                                   *)
(***************************************************************************)
Draws == {0, 1}

\* pos_emb_skip_rate, ScheduledFloat((0.0, 0.5), (4000.0, 0.0)): from 0.5 down to 0.0
PosEmbSkipRates == {0, 1}

RelForward ==
    /\ rel.pc = "args"
    /\ \E draw \in Draws, rate \in PosEmbSkipRates :
          LET use == UsePosScores(rel.training, rel.tracing, draw, rate)
          IN  rel' = [rel EXCEPT
                        !.pc = "done",
                        !.use_pos_scores = use,
                        !.pos_scores =
                            IF ~use THEN <<>>
                            ELSE IF rel.tracing THEN RelToAbsGather(rel.H, rel.B, rel.T)
                            ELSE RelToAbsStrided(rel.H, rel.B, rel.T)]
    /\ UNCHANGED <<ctor, fwd, ada, att, pec, det, tse, con, fb, lyr, wrm, msk, byp, tef>>

InitRelPos ==
    /\ ctor = CtorIdle
    /\ fwd = FwdIdle
    /\ ada = AdaIdle
    /\ att = AttIdle
    /\ \E H \in 1..MaxRelHeads, B \in 1..MaxRelBatch, T \in 1..MaxRelT,
          training \in BOOLEAN, tracing \in BOOLEAN :
          rel = [pc |-> "args", H |-> H, B |-> B, T |-> T, training |-> training,
                 tracing |-> tracing, use_pos_scores |-> FALSE, pos_scores |-> <<>>]
    /\ pec = PecIdle
    /\ det = DetIdle
    /\ tse = TseIdle
    /\ con = ConIdle
    /\ fb = FbIdle
    /\ lyr = LyrIdle
    /\ wrm = WrmIdle
    /\ msk = MskIdle
    /\ byp = BypIdle
    /\ tef = TefIdle

NextRelPos == RelForward

SpecRelPos == InitRelPos /\ [][NextRelPos]_vars

(***************************************************************************)
(* A CompactRelPositionalEncoding after construction and any sequence of   *)
(* forward calls.  `before` and `before_dtype` are the table and its dtype  *)
(* when the latest call began; `calls` says whether forward was called.    *)
(***************************************************************************)
PeLens == (1..MaxPeT) \cup ((max_len - 1)..(max_len + MaxPeGrow))

Dtypes == {"float32", "float16"}

\* lines 958-973: self.pe = None, then extend_pe(torch.tensor(0.0).expand(max_len))
PecConstructed ==
    LET r == extend_pe(<<>>, "float32", max_len, "float32")
    IN  [pe |-> r.pe, dtype |-> r.dtype, T |-> max_len, x_dtype |-> "float32",
         regenerated |-> r.regenerated, before |-> <<>>, before_dtype |-> "float32",
         pos_emb |-> <<>>, calls |-> 0]

\* lines 1026-1048: forward(x) for x of T frames; the dropout applied to the
\* returned rows changes no row's offset
PecForward ==
    \E T \in PeLens, x_dtype \in Dtypes :
        LET r == extend_pe(pec.pe, pec.dtype, T, x_dtype)
        IN  /\ pec' = [pe |-> r.pe, dtype |-> r.dtype, T |-> T, x_dtype |-> x_dtype,
                       regenerated |-> r.regenerated, before |-> pec.pe,
                       before_dtype |-> pec.dtype,
                       pos_emb |-> PosEmbSlice(r.pe, T), calls |-> 1]
            /\ UNCHANGED <<ctor, fwd, ada, att, rel, det, tse, con, fb, lyr, wrm, msk, byp, tef>>

InitPosEnc ==
    /\ ctor = CtorIdle
    /\ fwd = FwdIdle
    /\ ada = AdaIdle
    /\ att = AttIdle
    /\ rel = RelIdle
    /\ pec = PecConstructed
    /\ det = DetIdle
    /\ tse = TseIdle
    /\ con = ConIdle
    /\ fb = FbIdle
    /\ lyr = LyrIdle
    /\ wrm = WrmIdle
    /\ msk = MskIdle
    /\ byp = BypIdle
    /\ tef = TefIdle

NextPosEnc == PecForward

SpecPosEnc == InitPosEnc /\ [][NextPosEnc]_vars

(***************************************************************************)
(* Zipformer2EncoderLayer.forward, called twice on the same module with    *)
(* the same src, pos_emb, time_emb and masks.  The two calls advance side  *)
(* by side: det.run[r] holds what call r has decided so far, each step     *)
(* draws its random numbers separately for each call, and det.same says    *)
(* whether every value computed so far is the same in both calls.  The     *)
(* balancers and the whitening modules return their input.                 *)
(***************************************************************************)
Runs == {1, 2}

RandomValues == {0, 50, 500}

\* torch.rand(batch_size, 1): one draw for each sequence of the batch
RandSeqs(B) == [1..B -> RandomValues \ {0}]

\* the draws of a mask that is drawn only when its rate is not 0
RandSeqsIf(B, rate) == IF rate # 0 THEN RandSeqs(B) ELSE {<<>>}

RateNames ==
    {"attention_skip_rate", "conv_skip_rate", "ff2_skip_rate", "ff3_skip_rate",
     "const_attention_rate", "pos_emb_skip_rate", "bypass_skip_rate", "dropout"}

\* the values of the schedules at the current batch: all zero, all nonzero,
\* or exactly one nonzero
RateConfigs ==
    { [n \in RateNames |-> IF n \in S THEN NonzeroRate ELSE 0] :
        S \in {{}, RateNames} \cup {{n} : n \in RateNames} }

DetArgs ==
    { [pc |-> "begin", training |-> training, tracing |-> tracing, B |-> B,
       use_conv |-> use_conv, rates |-> rates, run |-> <<RunIdle, RunIdle>>,
       same |-> TRUE] :
        training \in BOOLEAN, tracing \in BOOLEAN, B \in 1..MaxDetBatch,
        use_conv \in BOOLEAN, rates \in RateConfigs }

\* the step from pc `from` to pc `to` in which call r becomes new[r] and
\* computes the value val[r]
DetStep(from, to, new, val) ==
    /\ det.pc = from
    /\ det' = [det EXCEPT !.pc = to,
                          !.run = <<new[1], new[2]>>,
                          !.same = @ /\ val[1] = val[2]]
    /\ UNCHANGED <<ctor, fwd, ada, att, rel, pec, tse, con, fb, lyr, wrm, msk, byp, tef>>

\* lines 510-515
LayerAttentionSkipRate ==
    LET rate == ResolveSkipRate(det.training, det.tracing, det.rates["attention_skip_rate"])
    IN  DetStep("begin", "attn_weights",
                [r \in Runs |-> [det.run[r] EXCEPT !.attention_skip_rate = rate]],
                [r \in Runs |-> rate])

\* lines 517-522, then RelPositionMultiheadAttentionWeights.forward, lines 1199-1204
LayerUsePosScores ==
    \E draw \in [Runs -> RandomValues] :
        LET use(r) == UsePosScores(det.training, det.tracing, draw[r],
                                   det.rates["pos_emb_skip_rate"])
        IN  DetStep("attn_weights", "penalty",
                    [r \in Runs |-> [det.run[r] EXCEPT
                        !.use_pos_scores = use(r),
                        !.random_draws = @ + UsePosScoresDraws(det.training, det.tracing)]],
                    [r \in Runs |-> use(r)])

\* lines 1244-1261
LayerPenalizeScores ==
    \E draw \in [Runs -> RandomValues] :
        LET penalized(r) == PenalizeScores(det.training, det.tracing, draw[r])
        IN  DetStep("penalty", "softmax",
                    [r \in Runs |-> [det.run[r] EXCEPT
                        !.penalized = penalized(r),
                        !.random_draws = @ + PenalizeScoresDraws(det.training, det.tracing)]],
                    [r \in Runs |-> penalized(r)])

\* lines 1263-1298: the masks, the softmax, the logging and the dropout
LayerSoftmax ==
    \E draw \in [Runs -> RandomValues],
       drop \in [Runs -> RandSeqsIf(det.B, AttnDropoutP)] :
        LET dropped(r) == AttnDropout(det.training, AttnDropoutP, drop[r])
        IN  DetStep("softmax", "feed_forward1",
                    [r \in Runs |-> [det.run[r] EXCEPT
                        !.logged = PrintAttnEntropy(det.training, det.tracing, draw[r]),
                        !.random_draws = @ + PrintAttnEntropyDraws(det.training, det.tracing),
                        !.torch_draws = @ + Drawn(dropped(r)),
                        !.masked = @ \/ dropped(r) # NoMask]],
                    [r \in Runs |-> dropped(r)])

\* lines 523-528
LayerFeedForward1 ==
    \E rand \in [Runs -> RandSeqs(det.B)] :
        LET drop(r) == ActivationDropout(det.training, det.rates["dropout"], rand[r])
        IN  DetStep("feed_forward1", "self_attn_dropout_mask",
                    [r \in Runs |-> [det.run[r] EXCEPT
                        !.torch_draws = @ + Drawn(drop(r)),
                        !.masked = @ \/ drop(r) # NoMask]],
                    [r \in Runs |-> drop(r)])

\* lines 530-532
LayerSelfAttnDropoutMask ==
    \E rand \in [Runs -> RandSeqs(det.B)] :
        LET mask(r) == get_sequence_dropout_mask(det.training, det.tracing,
                                                 det.run[r].attention_skip_rate, rand[r])
        IN  DetStep("self_attn_dropout_mask", "nonlin_attention",
                    [r \in Runs |-> [det.run[r] EXCEPT
                        !.self_attn_dropout_mask = mask(r),
                        !.torch_draws = @ + Drawn(mask(r)),
                        !.masked = @ \/ mask(r) # NoMask]],
                    [r \in Runs |-> mask(r)])

\* lines 534-554
LayerNonlinAttention ==
    \E draw \in [Runs -> RandomValues] :
        LET const(r) == UseConstAttention(det.training, det.tracing, draw[r],
                                          det.rates["const_attention_rate"])
        IN  DetStep("nonlin_attention", "self_attn1",
                    [r \in Runs |-> [det.run[r] EXCEPT
                        !.const_attention = const(r),
                        !.random_draws = @ + UseConstAttentionDraws(det.training, det.tracing)]],
                    [r \in Runs |-> [const_attention |-> const(r),
                                     mask |-> det.run[r].self_attn_dropout_mask]])

\* lines 556-562
LayerSelfAttn1 ==
    DetStep("self_attn1", "conv_module1",
            [r \in Runs |-> det.run[r]],
            [r \in Runs |-> det.run[r].self_attn_dropout_mask])

\* lines 564-579, 470-479
LayerConvModule1 ==
    \E rand \in [Runs -> RandSeqs(det.B)] :
        LET rate == ResolveSkipRate(det.training, det.tracing, det.rates["conv_skip_rate"])
            mask(r) == get_sequence_dropout_mask(det.training, det.tracing, rate, rand[r])
        IN  IF det.use_conv
            THEN DetStep("conv_module1", "feed_forward2",
                         [r \in Runs |-> [det.run[r] EXCEPT
                             !.conv_skip_rate = rate,
                             !.torch_draws = @ + Drawn(mask(r)),
                             !.masked = @ \/ mask(r) # NoMask]],
                         [r \in Runs |-> mask(r)])
            ELSE DetStep("conv_module1", "feed_forward2",
                         [r \in Runs |-> det.run[r]], [r \in Runs |-> NoMask])

\* lines 581-587
LayerFeedForward2 ==
    \E rand \in [Runs -> RandSeqs(det.B)], rand_p \in [Runs -> RandSeqs(det.B)] :
        LET rate == ResolveSkipRate(det.training, det.tracing, det.rates["ff2_skip_rate"])
            mask(r) == get_sequence_dropout_mask(det.training, det.tracing, rate, rand[r])
            drop(r) == ActivationDropout(det.training, det.rates["dropout"], rand_p[r])
        IN  DetStep("feed_forward2", "bypass_mid",
                    [r \in Runs |-> [det.run[r] EXCEPT
                        !.ff2_skip_rate = rate,
                        !.torch_draws = @ + Drawn(mask(r)) + Drawn(drop(r)),
                        !.masked = @ \/ mask(r) # NoMask \/ drop(r) # NoMask]],
                    [r \in Runs |-> [mask |-> mask(r), dropout |-> drop(r)]])

\* line 590: bypass_mid has skip_rate 0.0 and straight_through_rate 0
LayerBypassMid ==
    \E skip \in [Runs -> RandSeqsIf(det.B, MidSkipRate)],
       straight \in [Runs -> RandSeqsIf(det.B, StraightThroughRate)] :
        LET scale(r) == get_bypass_scale(det.training, det.tracing, MidSkipRate,
                                         StraightThroughRate,
                                         [skip |-> skip[r], straight |-> straight[r]])
        IN  DetStep("bypass_mid", "self_attn2",
                    [r \in Runs |-> [det.run[r] EXCEPT
                        !.torch_draws = @ + Drawn(scale(r).skip) + Drawn(scale(r).straight),
                        !.masked = @ \/ scale(r).skip # NoMask]],
                    [r \in Runs |-> scale(r)])

\* lines 592-598
LayerSelfAttn2 ==
    DetStep("self_attn2", "conv_module2",
            [r \in Runs |-> det.run[r]],
            [r \in Runs |-> det.run[r].self_attn_dropout_mask])

\* lines 600-616
LayerConvModule2 ==
    \E rand \in [Runs -> RandSeqs(det.B)] :
        LET rate == ResolveSkipRate(det.training, det.tracing, det.rates["conv_skip_rate"])
            mask(r) == get_sequence_dropout_mask(det.training, det.tracing, rate, rand[r])
        IN  IF det.use_conv
            THEN DetStep("conv_module2", "feed_forward3",
                         [r \in Runs |-> [det.run[r] EXCEPT
                             !.conv_skip_rate = rate,
                             !.torch_draws = @ + Drawn(mask(r)),
                             !.masked = @ \/ mask(r) # NoMask]],
                         [r \in Runs |-> mask(r)])
            ELSE DetStep("conv_module2", "feed_forward3",
                         [r \in Runs |-> det.run[r]], [r \in Runs |-> NoMask])

\* lines 618-624
LayerFeedForward3 ==
    \E rand \in [Runs -> RandSeqs(det.B)], rand_p \in [Runs -> RandSeqs(det.B)] :
        LET rate == ResolveSkipRate(det.training, det.tracing, det.rates["ff3_skip_rate"])
            mask(r) == get_sequence_dropout_mask(det.training, det.tracing, rate, rand[r])
            drop(r) == ActivationDropout(det.training, det.rates["dropout"], rand_p[r])
        IN  DetStep("feed_forward3", "bypass",
                    [r \in Runs |-> [det.run[r] EXCEPT
                        !.ff3_skip_rate = rate,
                        !.torch_draws = @ + Drawn(mask(r)) + Drawn(drop(r)),
                        !.masked = @ \/ mask(r) # NoMask \/ drop(r) # NoMask]],
                    [r \in Runs |-> [mask |-> mask(r), dropout |-> drop(r)]])

\* lines 626-634: the layer's bypass does the layer skipping; its result is
\* the value the layer returns
LayerBypass ==
    \E skip \in [Runs -> RandSeqsIf(det.B, det.rates["bypass_skip_rate"])],
       straight \in [Runs -> RandSeqsIf(det.B, StraightThroughRate)] :
        LET scale(r) == get_bypass_scale(det.training, det.tracing,
                                         det.rates["bypass_skip_rate"], StraightThroughRate,
                                         [skip |-> skip[r], straight |-> straight[r]])
        IN  DetStep("bypass", "done",
                    [r \in Runs |-> [det.run[r] EXCEPT
                        !.layer_skip = scale(r).skip,
                        !.torch_draws = @ + Drawn(scale(r).skip) + Drawn(scale(r).straight),
                        !.masked = @ \/ scale(r).skip # NoMask]],
                    [r \in Runs |-> scale(r)])

InitInference ==
    /\ ctor = CtorIdle
    /\ fwd = FwdIdle
    /\ ada = AdaIdle
    /\ att = AttIdle
    /\ rel = RelIdle
    /\ pec = PecIdle
    /\ det \in DetArgs
    /\ tse = TseIdle
    /\ con = ConIdle
    /\ fb = FbIdle
    /\ lyr = LyrIdle
    /\ wrm = WrmIdle
    /\ msk = MskIdle
    /\ byp = BypIdle
    /\ tef = TefIdle

NextInference ==
    \/ LayerAttentionSkipRate
    \/ LayerUsePosScores
    \/ LayerPenalizeScores
    \/ LayerSoftmax
    \/ LayerFeedForward1
    \/ LayerSelfAttnDropoutMask
    \/ LayerNonlinAttention
    \/ LayerSelfAttn1
    \/ LayerConvModule1
    \/ LayerFeedForward2
    \/ LayerBypassMid
    \/ LayerSelfAttn2
    \/ LayerConvModule2
    \/ LayerFeedForward3
    \/ LayerBypass

SpecInference == InitInference /\ [][NextInference]_vars

(***************************************************************************)
(* timestep_embedding called on a batch of timesteps, then either on the   *)
(* same batch with its examples permuted or on the batch of one of its     *)
(* examples alone.                                                         *)
(***************************************************************************)
TsValues == {0, 1}

Timesteps(rank, N, T) ==
    IF rank = 2 THEN [1..N -> [1..T -> TsValues]] ELSE [1..N -> TsValues]

BatchPermutations(N) == {f \in [1..N -> 1..N] : \A a, b \in 1..N : f[a] = f[b] => a = b}

\* the batch whose example n is example perm[n] of timesteps
PermuteBatch(timesteps, perm) == [n \in 1..Len(timesteps) |-> timesteps[perm[n]]]

TseArgs(rank, dim, timesteps) ==
    [pc |-> "args", rank |-> rank, dim |-> dim, timesteps |-> timesteps, out |-> <<>>,
     perm |-> <<>>, i |-> 0, other |-> <<>>]

TseCall ==
    /\ tse.pc = "args"
    /\ tse' = [tse EXCEPT !.pc = "called",
                          !.out = timestep_embedding(tse.timesteps, tse.rank, tse.dim)]
    /\ UNCHANGED <<ctor, fwd, ada, att, rel, pec, det, con, fb, lyr, wrm, msk, byp, tef>>

TseCallPermuted ==
    /\ tse.pc = "called"
    /\ \E perm \in BatchPermutations(Len(tse.timesteps)) :
          tse' = [tse EXCEPT
                    !.pc = "permuted",
                    !.perm = perm,
                    !.other = timestep_embedding(PermuteBatch(tse.timesteps, perm),
                                                 tse.rank, tse.dim)]
    /\ UNCHANGED <<ctor, fwd, ada, att, rel, pec, det, con, fb, lyr, wrm, msk, byp, tef>>

TseCallAlone ==
    /\ tse.pc = "called"
    /\ \E i \in 1..Len(tse.timesteps) :
          tse' = [tse EXCEPT
                    !.pc = "alone",
                    !.i = i,
                    !.other = timestep_embedding(<<tse.timesteps[i]>>, tse.rank, tse.dim)]
    /\ UNCHANGED <<ctor, fwd, ada, att, rel, pec, det, con, fb, lyr, wrm, msk, byp, tef>>

InitTimestep ==
    /\ ctor = CtorIdle
    /\ fwd = FwdIdle
    /\ ada = AdaIdle
    /\ att = AttIdle
    /\ rel = RelIdle
    /\ pec = PecIdle
    /\ det = DetIdle
    /\ \E rank \in 1..2, dim \in 1..MaxDim, N \in 1..MaxTsN, T \in 1..MaxTsT :
          \E timesteps \in Timesteps(rank, N, T) :
              tse = TseArgs(rank, dim, timesteps)
    /\ con = ConIdle
    /\ fb = FbIdle
    /\ lyr = LyrIdle
    /\ wrm = WrmIdle
    /\ msk = MskIdle
    /\ byp = BypIdle
    /\ tef = TefIdle

NextTimestep ==
    \/ TseCall
    \/ TseCallPermuted
    \/ TseCallAlone

SpecTimestep == InitTimestep /\ [][NextTimestep]_vars

(***************************************************************************)
(* TTSZipformer.__init__ with downsampling_factor, num_encoder_layers,     *)
(* cnn_module_kernel, pos_dim, use_conv, use_time_embed and time_embed_dim *)
(* as given by the caller; an exception ends the construction.             *)
(***************************************************************************)
ConFactors == {1, 2}

KernelSizes == {2, 3}

LayerCounts == {0, 2}

PosDims == {3, 4}

TimeEmbedDims == {-1, 2}

\* an int or a tuple of at most MaxConStacks entries
IntOrTuple(S) == {IntArg(x) : x \in S} \cup {TupleArg(t) : t \in SeqsUpTo(S, MaxConStacks)}

\* the construction ends with `error`, raised by the step con.pc
ConFail(error) == [con EXCEPT !.pc = "failed", !.err = error, !.at = con.pc]

\* line 153
ConValidate ==
    /\ con.pc = "args"
    /\ LET r == assert_downsampling_factor(con.factors)
       IN  con' = IF r = "ok" THEN [con EXCEPT !.pc = "layers"] ELSE ConFail(r)
    /\ UNCHANGED <<ctor, fwd, ada, att, rel, pec, det, tse, fb, lyr, wrm, msk, byp, tef>>

\* line 155: num_encoder_layers = _to_tuple(num_encoder_layers)
ConExpandLayers ==
    /\ con.pc = "layers"
    /\ \E x \in IntOrTuple(LayerCounts) :
          LET r == to_tuple(x, Len(con.factors))
          IN  con' = IF r.ok
                     THEN [con EXCEPT !.pc = "kernel", !.layers_arg = x,
                                      !.num_encoder_layers = r.val]
                     ELSE [ConFail("AssertionError") EXCEPT !.layers_arg = x]
    /\ UNCHANGED <<ctor, fwd, ada, att, rel, pec, det, tse, fb, lyr, wrm, msk, byp, tef>>

\* line 156: cnn_module_kernel = _to_tuple(cnn_module_kernel)
ConExpandKernel ==
    /\ con.pc = "kernel"
    /\ \E x \in IntOrTuple(KernelSizes) :
          LET r == to_tuple(x, Len(con.factors))
          IN  con' = IF r.ok
                     THEN [con EXCEPT !.pc = "time_embed", !.kernel_arg = x,
                                      !.cnn_module_kernel = r.val]
                     ELSE [ConFail("AssertionError") EXCEPT !.kernel_arg = x]
    /\ UNCHANGED <<ctor, fwd, ada, att, rel, pec, det, tse, fb, lyr, wrm, msk, byp, tef>>

\* lines 166-170
ConTimeEmbed ==
    /\ con.pc = "time_embed"
    /\ con' = IF con.use_time_embed
              THEN IF con.time_embed_dim # -1 THEN [con EXCEPT !.pc = "stacks"]
                   ELSE ConFail("AssertionError")
              ELSE [con EXCEPT !.pc = "stacks", !.time_embed_dim = -1]
    /\ UNCHANGED <<ctor, fwd, ada, att, rel, pec, det, tse, fb, lyr, wrm, msk, byp, tef>>

\* lines 180-216: one pass of the loop that builds stack i: the layer, the
\* stack of its copies, the adapter around it
ConBuildStack ==
    /\ con.pc = "stacks"
    /\ LET i == Len(con.encoders) + 1
           layer == Zipformer2EncoderLayer_init(con.use_conv, con.cnn_module_kernel[i])
           stack == Zipformer2Encoder_init(con.num_encoder_layers[i], con.pos_dim)
           encoder == [kind |-> IF con.factors[i] # 1
                                THEN "DownsampledZipformer2Encoder"
                                ELSE "Zipformer2Encoder",
                       downsample |-> con.factors[i],
                       num_layers |-> con.num_encoder_layers[i],
                       kernel |-> con.cnn_module_kernel[i]]
       IN  con' = IF layer # "ok" THEN ConFail(layer)
                  ELSE IF stack # "ok" THEN ConFail(stack)
                  ELSE [con EXCEPT !.encoders = Append(@, encoder),
                                   !.pc = IF i = Len(con.factors) THEN "built" ELSE @]
    /\ UNCHANGED <<ctor, fwd, ada, att, rel, pec, det, tse, fb, lyr, wrm, msk, byp, tef>>

ConArgs ==
    {[ConIdle EXCEPT !.pc = "args", !.factors = f, !.pos_dim = p, !.use_conv = c,
                     !.use_time_embed = u, !.time_embed_dim = d] :
        f \in SeqsUpTo(ConFactors, MaxConStacks), p \in PosDims, c \in BOOLEAN,
        u \in BOOLEAN, d \in TimeEmbedDims}

InitConstruct ==
    /\ ctor = CtorIdle
    /\ fwd = FwdIdle
    /\ ada = AdaIdle
    /\ att = AttIdle
    /\ rel = RelIdle
    /\ pec = PecIdle
    /\ det = DetIdle
    /\ tse = TseIdle
    /\ con \in ConArgs
    /\ fb = FbIdle
    /\ lyr = LyrIdle
    /\ wrm = WrmIdle
    /\ msk = MskIdle
    /\ byp = BypIdle
    /\ tef = TefIdle

NextConstruct ==
    \/ ConValidate
    \/ ConExpandLayers
    \/ ConExpandKernel
    \/ ConTimeEmbed
    \/ ConBuildStack

SpecConstruct == InitConstruct /\ [][NextConstruct]_vars

(***************************************************************************)
(* The compute_fbank command, run once and, after a run that reported      *)
(* success, a second time with the same arguments.  In split mode the main *)
(* process submits the shard jobs to the pool, the workers run them (a job *)
(* touches only the files of its shard and the destination directory, and  *)
(* is one step), and the main process collects the results in submission   *)
(* order.  A future is [idx, state, outcome, had_manifest, changed, execs]:*)
(* had_manifest and changed say whether the destination manifest existed   *)
(* when the job began and whether the job changed the destination files.   *)
(***************************************************************************)
Shards == 0..(MaxShards - 1)

Future(idx) ==
    [idx |-> idx, state |-> "queued", outcome |-> "none", had_manifest |-> FALSE,
     changed |-> FALSE, execs |-> 0]

\* the future after its job ran from files `before` with result r
Ran(f, before, r) ==
    [f EXCEPT !.state = IF r.outcome \in Raises THEN "raised" ELSE "done",
              !.outcome = r.outcome,
              !.had_manifest = <<"cuts", f.idx>> \in before.files,
              !.changed = r.fs.files # before.files,
              !.execs = @ + 1]

SubmittedInclusive(split_begin, split_end) ==
    [j \in 1..Max(split_end - split_begin + 1, 0) |-> Future(split_begin + j - 1)]

\* lines 200-203: one submit for each i of range(split_begin, split_end)
Submitted(split_begin, split_end) ==
    [j \in 1..Max(split_end - split_begin, 0) |-> Future(split_begin + j - 1)]

Running(futures) == {j \in 1..Len(futures) : futures[j].state = "running"}

Finished(futures) == \A j \in 1..Len(futures) : futures[j].state \in {"done", "raised"}

\* lines 192-203: Pool(max_workers=num_jobs) raises ValueError unless
\* num_jobs > 0; the jobs are submitted before any result is awaited
FbSubmit ==
    /\ fb.pc = "start"
    /\ fb.split_cuts
    /\ fb' = IF fb.num_jobs <= 0
             THEN [fb EXCEPT !.pc = "fatal"]
             ELSE [fb EXCEPT !.pc = "collect", !.k = 1,
                             !.futures = Submitted(fb.split_begin, fb.split_end)]
    /\ UNCHANGED <<ctor, fwd, ada, att, rel, pec, det, tse, con, lyr, wrm, msk, byp, tef>>

\* a free worker of the pool takes the oldest queued job
FbJobStart ==
    /\ fb.pc \in {"collect", "unwinding"}
    /\ Cardinality(Running(fb.futures)) < fb.num_jobs
    /\ \E j \in 1..Len(fb.futures) :
          /\ fb.futures[j].state = "queued"
          /\ \A i \in 1..(j - 1) : fb.futures[i].state # "queued"
          /\ fb' = [fb EXCEPT !.futures[j].state = "running"]
    /\ UNCHANGED <<ctor, fwd, ada, att, rel, pec, det, tse, con, lyr, wrm, msk, byp, tef>>

\* a worker runs compute_fbank_split_single(params, idx)
FbJobRun ==
    /\ \E j \in Running(fb.futures), extraction \in Extractions :
          LET r == compute_fbank_split_single(fb.fs, fb.type, fb.futures[j].idx, extraction)
          IN  fb' = [fb EXCEPT !.fs = r.fs,
                               !.futures[j] = Ran(@, fb.fs, r)]
    /\ UNCHANGED <<ctor, fwd, ada, att, rel, pec, det, tse, con, lyr, wrm, msk, byp, tef>>

\* lines 204-206: f.result() waits for future k and raises what its job raised
FbCollect ==
    /\ fb.pc = "collect"
    /\ fb.k <= Len(fb.futures)
    /\ fb.futures[fb.k].state \in {"done", "raised"}
    /\ fb' = IF fb.futures[fb.k].state = "raised"
             THEN [fb EXCEPT !.pc = "unwinding"]
             ELSE [fb EXCEPT !.k = @ + 1]
    /\ UNCHANGED <<ctor, fwd, ada, att, rel, pec, det, tse, con, lyr, wrm, msk, byp, tef>>

FbPoolExitCancelling ==
    /\ \/ fb.pc = "collect" /\ fb.k > Len(fb.futures)
       \/ fb.pc = "unwinding"
    /\ Running(fb.futures) = {}
    /\ fb' = [fb EXCEPT !.pc = IF fb.pc = "unwinding" THEN "fatal" ELSE "success"]
    /\ UNCHANGED <<ctor, fwd, ada, att, rel, pec, det, tse, con, lyr, wrm, msk, byp, tef>>

\* the end of the with block waits for every submitted job; then the
\* exception leaves the program, or line 272 logs "Done!"
FbPoolExit ==
    /\ \/ fb.pc = "collect" /\ fb.k > Len(fb.futures)
       \/ fb.pc = "unwinding"
    /\ Finished(fb.futures)
    /\ fb' = [fb EXCEPT !.pc = IF fb.pc = "unwinding" THEN "fatal" ELSE "success"]
    /\ UNCHANGED <<ctor, fwd, ada, att, rel, pec, det, tse, con, lyr, wrm, msk, byp, tef>>

\* lines 270-272 without --split-cuts: compute_fbank(params) in the main process
FbWhole ==
    /\ fb.pc = "start"
    /\ ~fb.split_cuts
    /\ \E extraction \in Extractions :
          LET r == compute_fbank(fb.fs, fb.type, extraction)
              f == Ran(Future(Whole), fb.fs, r)
          IN  fb' = [fb EXCEPT !.fs = r.fs,
                               !.futures = <<f>>,
                               !.pc = IF f.state = "raised" THEN "fatal" ELSE "success"]
    /\ UNCHANGED <<ctor, fwd, ada, att, rel, pec, det, tse, con, lyr, wrm, msk, byp, tef>>

\* the same command again, after a run that reported success
FbRunAgain ==
    /\ fb.pc = "success"
    /\ fb.run = 1
    /\ fb' = [fb EXCEPT !.pc = "start", !.run = 2, !.futures = <<>>, !.k = 0,
                        !.fs_start = fb.fs]
    /\ UNCHANGED <<ctor, fwd, ada, att, rel, pec, det, tse, con, lyr, wrm, msk, byp, tef>>

\* the destination directory with the features and manifests of `done`
Destination(done) ==
    {<<"cuts", i>> : i \in done} \cup {<<"feats", i>> : i \in done}

FbArgs(split_cuts, split_begin, split_end, num_jobs, type, fs) ==
    [pc |-> "start", split_cuts |-> split_cuts, split_begin |-> split_begin,
     split_end |-> split_end, num_jobs |-> num_jobs, type |-> type, fs |-> fs,
     futures |-> <<>>, k |-> 0, run |-> 1, fs_start |-> fs]

InitFbank ==
    /\ ctor = CtorIdle
    /\ fwd = FwdIdle
    /\ ada = AdaIdle
    /\ att = AttIdle
    /\ rel = RelIdle
    /\ pec = PecIdle
    /\ det = DetIdle
    /\ tse = TseIdle
    /\ con = ConIdle
    /\ lyr = LyrIdle
    /\ wrm = WrmIdle
    /\ msk = MskIdle
    /\ byp = BypIdle
    /\ tef = TefIdle
    /\ \E type \in {"vocos", "other"}, out_dir \in BOOLEAN :
          \/ \E split_begin \in 0..MaxShards, split_end \in 0..MaxShards,
                num_jobs \in 0..MaxJobs, src_dir \in BOOLEAN,
                raw \in SUBSET Shards, done \in SUBSET Shards :
                /\ src_dir \/ raw = {}
                /\ out_dir \/ done = {}
                /\ fb = FbArgs(TRUE, split_begin, split_end, num_jobs, type,
                               [src_dir |-> src_dir, raw |-> raw, whole |-> "none",
                                out_dir |-> out_dir, files |-> Destination(done)])
          \/ \E whole \in {"cuts", "rec_sup", "none"}, done \in SUBSET {Whole} :
                /\ out_dir \/ done = {}
                /\ fb = FbArgs(FALSE, 0, 0, 1, type,
                               [src_dir |-> TRUE, raw |-> {}, whole |-> whole,
                                out_dir |-> out_dir, files |-> Destination(done)])

NextFbank ==
    \/ FbSubmit
    \/ FbJobStart
    \/ FbJobRun
    \/ FbCollect
    \/ FbPoolExit
    \/ FbWhole
    \/ FbRunAgain

SpecFbank == InitFbank /\ [][NextFbank]_vars

(***************************************************************************)
(* One call of Zipformer2EncoderLayer.forward, followed through the        *)
(* attention weights, the modules that use them and every per-sequence     *)
(* mask drawn on the way.  rand_calls counts the calls of torch.rand made  *)
(* by get_sequence_dropout_mask, mask_rand keeps the draws behind          *)
(* self_attn_dropout_mask.                                                 *)
(***************************************************************************)
\* the matrices the attention-weights module may return for a head and a
\* sequence of two frames: softmax rows, some with weights that are 0
AttnMatrices ==
    { << [num |-> <<1, 0>>, den |-> 1], [num |-> <<1, 3>>, den |-> 4] >>,
      << [num |-> <<1, 1>>, den |-> 2], [num |-> <<0, 1>>, den |-> 1] >>,
      << [num |-> <<2, 1>>, den |-> 3], [num |-> <<1, 0>>, den |-> 1] >> }

\* the draws torch.rand makes for a mask: none when no mask is drawn
MaskDraws(training, tracing, rate, B) ==
    IF rate = 0 \/ ~training \/ tracing THEN {<<>>} ELSE RandSeqs(B)

LyrArgs ==
    { [LyrIdle EXCEPT !.pc = "begin", !.training = training, !.tracing = tracing,
                      !.B = B, !.use_conv = use_conv,
                      !.attention_skip_rate_attr = askip,
                      !.const_attention_rate = crate] :
        training \in BOOLEAN, tracing \in BOOLEAN, B \in 1..MaxLyrBatch,
        use_conv \in BOOLEAN, askip \in {0, NonzeroRate}, crate \in {0, NonzeroRate} }

\* lines 510-522: the skip rate, then self.self_attn_weights(...), whose
\* result has two heads; the second head gives every sequence the same matrix
LyrAttnWeights ==
    /\ lyr.pc = "begin"
    /\ \E head0 \in [1..lyr.B -> AttnMatrices], head1 \in AttnMatrices :
          lyr' = [lyr EXCEPT
                    !.pc = "self_attn_dropout_mask",
                    !.attention_skip_rate =
                        ResolveSkipRate(lyr.training, lyr.tracing,
                                        lyr.attention_skip_rate_attr),
                    !.attn_weights = <<head0, [b \in 1..lyr.B |-> head1]>>]
    /\ UNCHANGED <<ctor, fwd, ada, att, rel, pec, det, tse, con, fb, wrm, msk, byp, tef>>

\* lines 523-532: time_emb, feed_forward1, then the mask of the attention modules
LyrSelfAttnDropoutMask ==
    /\ lyr.pc = "self_attn_dropout_mask"
    /\ \E rand \in MaskDraws(lyr.training, lyr.tracing, lyr.attention_skip_rate, lyr.B) :
          lyr' = [lyr EXCEPT
                    !.pc = "nonlin_attention",
                    !.self_attn_dropout_mask =
                        get_sequence_dropout_mask(lyr.training, lyr.tracing,
                                                  lyr.attention_skip_rate, rand),
                    !.mask_rand = rand,
                    !.rand_calls = @ + (IF rand = <<>> THEN 0 ELSE 1)]
    /\ UNCHANGED <<ctor, fwd, ada, att, rel, pec, det, tse, con, fb, wrm, msk, byp, tef>>

\* lines 534-554
LyrNonlinAttention ==
    /\ lyr.pc = "nonlin_attention"
    /\ \E draw \in RandomValues :
          LET const == UseConstAttention(lyr.training, lyr.tracing, draw,
                                         lyr.const_attention_rate)
          IN  lyr' = [lyr EXCEPT
                        !.pc = "self_attn1",
                        !.const_attention = const,
                        !.na_weights = SelectedAttnWeights(lyr.attn_weights, const),
                        !.na = SkipFactor(lyr.B, lyr.self_attn_dropout_mask)]
    /\ UNCHANGED <<ctor, fwd, ada, att, rel, pec, det, tse, con, fb, wrm, msk, byp, tef>>

\* lines 556-562
LyrSelfAttn1 ==
    /\ lyr.pc = "self_attn1"
    /\ lyr' = [lyr EXCEPT
                 !.pc = "conv_module1",
                 !.self_attn1_weights = lyr.attn_weights,
                 !.self_attn1 = SkipFactor(lyr.B, lyr.self_attn_dropout_mask)]
    /\ UNCHANGED <<ctor, fwd, ada, att, rel, pec, det, tse, con, fb, wrm, msk, byp, tef>>

\* lines 564-590: conv_module1 and feed_forward2 draw masks of their own in
\* sequence_dropout (their skip rates are not 0 here); then bypass_mid
LyrMiddle ==
    /\ lyr.pc = "conv_module1"
    /\ \E conv_rand \in MaskDraws(lyr.training /\ lyr.use_conv, lyr.tracing,
                                  NonzeroRate, lyr.B),
          ff2_rand \in MaskDraws(lyr.training, lyr.tracing, NonzeroRate, lyr.B) :
          lyr' = [lyr EXCEPT
                    !.pc = "self_attn2",
                    !.rand_calls = @ + (IF conv_rand = <<>> THEN 0 ELSE 1)
                                     + (IF ff2_rand = <<>> THEN 0 ELSE 1)]
    /\ UNCHANGED <<ctor, fwd, ada, att, rel, pec, det, tse, con, fb, wrm, msk, byp, tef>>

\* lines 592-598
LyrSelfAttn2 ==
    /\ lyr.pc = "self_attn2"
    /\ lyr' = [lyr EXCEPT
                 !.pc = "conv_module2",
                 !.self_attn2_weights = lyr.attn_weights,
                 !.self_attn2 = SkipFactor(lyr.B, lyr.self_attn_dropout_mask)]
    /\ UNCHANGED <<ctor, fwd, ada, att, rel, pec, det, tse, con, fb, wrm, msk, byp, tef>>

InitLayer ==
    /\ ctor = CtorIdle
    /\ fwd = FwdIdle
    /\ ada = AdaIdle
    /\ att = AttIdle
    /\ rel = RelIdle
    /\ pec = PecIdle
    /\ det = DetIdle
    /\ tse = TseIdle
    /\ con = ConIdle
    /\ fb = FbIdle
    /\ lyr \in LyrArgs
    /\ wrm = WrmIdle
    /\ msk = MskIdle
    /\ byp = BypIdle
    /\ tef = TefIdle

NextLayer ==
    \/ LyrAttnWeights
    \/ LyrSelfAttnDropoutMask
    \/ LyrNonlinAttention
    \/ LyrSelfAttn1
    \/ LyrMiddle
    \/ LyrSelfAttn2

SpecLayer == InitLayer /\ [][NextLayer]_vars

(***************************************************************************)
(* Zipformer2Encoder.__init__ from the assertion on the warmup interval    *)
(* on.  The arguments warmup_begin and warmup_end are the floats of the    *)
(* whole numbers begin and end; skip_rate[i] is the schedule given to      *)
(* self.layers[i - 1].bypass.skip_rate.                                    *)
(***************************************************************************)
WrmArgs ==
    { [WrmIdle EXCEPT !.pc = "assert", !.num_layers = n, !.begin = b, !.end = e,
                      !.warmup_begin = FloatRound(b, 0),
                      !.warmup_end = FloatRound(e, 0)] :
        n \in 0..MaxLayers, b \in 0..MaxWarmup, e \in 0..MaxWarmup }

\* line 681: assert 0 <= warmup_begin <= warmup_end
WrmAssert ==
    /\ wrm.pc = "assert"
    /\ wrm' = IF FloatLe(wrm.warmup_begin, wrm.warmup_end)
              THEN [wrm EXCEPT !.pc = "delta"]
              ELSE [wrm EXCEPT !.pc = "failed", !.err = "AssertionError"]
    /\ UNCHANGED <<ctor, fwd, ada, att, rel, pec, det, tse, con, fb, lyr, msk, byp, tef>>

\* lines 683-684; 1.0 / 0 raises
WrmDelta ==
    /\ wrm.pc = "delta"
    /\ wrm' = IF wrm.num_layers = 0
              THEN [wrm EXCEPT !.pc = "failed", !.err = "ZeroDivisionError"]
              ELSE [wrm EXCEPT !.pc = "layers",
                               !.delta = WarmupDelta(wrm.num_layers, wrm.warmup_begin,
                                                     wrm.warmup_end),
                               !.cur_begin = wrm.warmup_begin]
    /\ UNCHANGED <<ctor, fwd, ada, att, rel, pec, det, tse, con, fb, lyr, msk, byp, tef>>

\* lines 685-692: one pass of the loop over the layers
WrmLayer ==
    /\ wrm.pc = "layers"
    /\ LET cur_end == FloatAdd(wrm.cur_begin, wrm.delta)
           skip_rate == Append(wrm.skip_rate, ScheduledFloat(wrm.cur_begin, cur_end))
       IN  wrm' = [wrm EXCEPT !.skip_rate = skip_rate,
                              !.cur_begin = cur_end,
                              !.pc = IF Len(skip_rate) = wrm.num_layers
                                     THEN "built" ELSE @]
    /\ UNCHANGED <<ctor, fwd, ada, att, rel, pec, det, tse, con, fb, lyr, msk, byp, tef>>

InitWarmup ==
    /\ ctor = CtorIdle
    /\ fwd = FwdIdle
    /\ ada = AdaIdle
    /\ att = AttIdle
    /\ rel = RelIdle
    /\ pec = PecIdle
    /\ det = DetIdle
    /\ tse = TseIdle
    /\ con = ConIdle
    /\ fb = FbIdle
    /\ lyr = LyrIdle
    /\ wrm \in WrmArgs
    /\ msk = MskIdle
    /\ byp = BypIdle
    /\ tef = TefIdle

NextWarmup ==
    \/ WrmAssert
    \/ WrmDelta
    \/ WrmLayer

SpecWarmup == InitWarmup /\ [][NextWarmup]_vars

(***************************************************************************)
(* One call of DownsampledZipformer2Encoder.forward with an attention      *)
(* mask of rank 2 or 3 (rank 0: None), up to the first use of the mask in  *)
(* the inner stack.                                                        *)
(***************************************************************************)
MskArgs ==
    { [MskIdle EXCEPT !.pc = "start", !.ds = ds, !.B = B, !.T = T, !.seq_len = T,
                      !.rank = rank,
                      !.attn_mask = IF rank = 0 THEN <<>>
                                    ELSE IF rank = 2 THEN AttnMask(<<T, T>>)
                                    ELSE AttnMask(<<B, T, T>>)] :
        ds \in 1..MaxDs, B \in 1..MaxBatch, T \in 1..MaxMaskT, rank \in {0, 2, 3} }

\* lines 842-850: self.downsample(src) and the slices
MskDownsample ==
    /\ msk.pc = "start"
    /\ msk' = [msk EXCEPT !.pc = "down",
                          !.seq_len = DSeqLen(msk.T, msk.ds),
                          !.attn_mask = IF msk.rank = 0 THEN <<>>
                                        ELSE StrideAttnMask(@, msk.ds)]
    /\ UNCHANGED <<ctor, fwd, ada, att, rel, pec, det, tse, con, fb, lyr, wrm, byp, tef>>

\* lines 852-857, then lines 1263-1271 in the first layer of the inner stack
MskEncoder ==
    /\ msk.pc = "down"
    /\ msk' = IF \/ msk.rank = 0
                 \/ MaskBroadcasts(MaskShape(msk.attn_mask), msk.B, msk.seq_len)
              THEN [msk EXCEPT !.pc = "enc"]
              ELSE [msk EXCEPT !.pc = "error", !.err = "RuntimeError"]
    /\ UNCHANGED <<ctor, fwd, ada, att, rel, pec, det, tse, con, fb, lyr, wrm, byp, tef>>

InitAttnMask ==
    /\ ctor = CtorIdle
    /\ fwd = FwdIdle
    /\ ada = AdaIdle
    /\ att = AttIdle
    /\ rel = RelIdle
    /\ pec = PecIdle
    /\ det = DetIdle
    /\ tse = TseIdle
    /\ con = ConIdle
    /\ fb = FbIdle
    /\ lyr = LyrIdle
    /\ wrm = WrmIdle
    /\ msk \in MskArgs
    /\ byp = BypIdle
    /\ tef = TefIdle

NextAttnMask ==
    \/ MskDownsample
    \/ MskEncoder

SpecAttnMask == InitAttnMask /\ [][NextAttnMask]_vars

(***************************************************************************)
(* One call of BypassModule.forward, for the bypass of a layer (its        *)
(* skip_rate is the schedule Zipformer2Encoder.__init__ gave it), for      *)
(* bypass_mid and for the out_combiner of an adapter (skip_rate 0.0).  The *)
(* parameter bypass_scale starts at 0.5 and is moved by the optimizer;     *)
(* scale_min is the value of its schedule, between 0.9 and 0.2, or its     *)
(* default 0.                                                              *)
(***************************************************************************)
BypassModules == {"bypass", "bypass_mid", "out_combiner"}

ParamValues == {-5, 0, InitialScale, ScaleMax, 15}

ScaleMins == {0, 2, 9}

BypArgs ==
    { [BypIdle EXCEPT !.pc = "call", !.module = module, !.training = training,
                      !.tracing = tracing, !.B = B, !.skip_rate = skip_rate,
                      !.scale_min = scale_min, !.bypass_scale = bypass_scale] :
        module \in BypassModules, training \in BOOLEAN, tracing \in BOOLEAN,
        B \in 1..MaxBypBatch, skip_rate \in {0, NonzeroRate}, scale_min \in ScaleMins,
        bypass_scale \in [1..MaxBypChannels -> ParamValues] }

\* the draws of torch.rand((batch_size, 1)) at lines 777 and 784
BypDraws(rate) ==
    IF byp.training /\ ~byp.tracing THEN RandSeqsIf(byp.B, rate) ELSE {<<>>}

\* lines 790-796
BypForward ==
    /\ byp.pc = "call"
    /\ \E skip \in BypDraws(byp.skip_rate), straight \in BypDraws(StraightThroughRate) :
          byp' = [byp EXCEPT
                    !.pc = "done",
                    !.scale = BypassScale(byp.training, byp.tracing, byp.skip_rate,
                                          StraightThroughRate,
                                          [skip |-> skip, straight |-> straight],
                                          byp.bypass_scale, byp.scale_min, ScaleMax,
                                          byp.B)]
    /\ UNCHANGED <<ctor, fwd, ada, att, rel, pec, det, tse, con, fb, lyr, wrm, msk, tef>>

InitBypass ==
    /\ ctor = CtorIdle
    /\ fwd = FwdIdle
    /\ ada = AdaIdle
    /\ att = AttIdle
    /\ rel = RelIdle
    /\ pec = PecIdle
    /\ det = DetIdle
    /\ tse = TseIdle
    /\ con = ConIdle
    /\ fb = FbIdle
    /\ lyr = LyrIdle
    /\ wrm = WrmIdle
    /\ msk = MskIdle
    /\ byp \in {a \in BypArgs : a.module = "bypass" \/ a.skip_rate = 0}
    /\ tef = TefIdle

NextBypass == BypForward

SpecBypass == InitBypass /\ [][NextBypass]_vars

(***************************************************************************)
(* The construction of a TTSZipformer and one call of its forward,         *)
(* followed through the time embedding: t and guidance_scale are None (0)  *)
(* or tensors of rank 1 to MaxRank.  time_embed_dim is the attribute       *)
(* self.time_embed_dim (line 165), stack_time_embed_dim what the stacks    *)
(* and the two embedding modules are built with (lines 166-169), and       *)
(* received is what each stack was called with.                            *)
(***************************************************************************)
TefArgs ==
    { [TefIdle EXCEPT !.pc = "new", !.use_time_embed = u,
                      !.use_guidance_scale_embed = g, !.time_embed_dim = d,
                      !.num_encoders = n, !.t = t, !.guidance_scale = gs] :
        u \in BOOLEAN, g \in BOOLEAN, d \in TimeEmbedDims, n \in {1, 3},
        t \in 0..MaxRank, gs \in 0..MaxRank }

\* lines 163-170 and 216-234: the assertion on time_embed_dim, the dimension
\* the stacks are built with, and the two embedding modules; a Linear layer
\* with -1 output features cannot be created
TefConstruct ==
    /\ tef.pc = "new"
    /\ LET r == StackTimeEmbedDim(tef.use_time_embed, tef.time_embed_dim)
       IN  tef' = IF r.err # "none"
                  THEN [tef EXCEPT !.pc = "failed", !.err = r.err, !.at = "construct"]
                  ELSE IF tef.use_guidance_scale_embed /\ r.dim < 0
                  THEN [tef EXCEPT !.pc = "failed", !.err = "RuntimeError",
                                   !.at = "construct"]
                  ELSE [tef EXCEPT !.pc = "call", !.stack_time_embed_dim = r.dim]
    /\ UNCHANGED <<ctor, fwd, ada, att, rel, pec, det, tse, con, fb, lyr, wrm, msk, byp>>

\* lines 256-274
TefTimeEmb ==
    /\ tef.pc = "call"
    /\ LET r == TimeEmb(tef.use_time_embed, tef.use_guidance_scale_embed,
                        tef.time_embed_dim, tef.t, tef.guidance_scale)
       IN  tef' = IF r.err = "none"
                  THEN [tef EXCEPT !.pc = "stacks", !.time_emb = r.time_emb, !.i = 1]
                  ELSE [tef EXCEPT !.pc = "failed", !.err = r.err, !.at = "time_emb"]
    /\ UNCHANGED <<ctor, fwd, ada, att, rel, pec, det, tse, con, fb, lyr, wrm, msk, byp>>

\* lines 276-282: one pass of the loop, into Zipformer2Encoder.forward
TefStack ==
    /\ tef.pc = "stacks"
    /\ tef.i <= tef.num_encoders
    /\ LET r == EncoderTimeEmb(tef.stack_time_embed_dim # -1, tef.time_emb)
       IN  tef' = IF r = "none"
                  THEN [tef EXCEPT !.i = @ + 1, !.received = Append(@, tef.time_emb)]
                  ELSE [tef EXCEPT !.pc = "failed", !.err = r, !.at = "stack",
                                   !.received = Append(@, tef.time_emb)]
    /\ UNCHANGED <<ctor, fwd, ada, att, rel, pec, det, tse, con, fb, lyr, wrm, msk, byp>>

\* lines 283-285
TefReturn ==
    /\ tef.pc = "stacks"
    /\ tef.i > tef.num_encoders
    /\ tef' = [tef EXCEPT !.pc = "done", !.returned = TRUE]
    /\ UNCHANGED <<ctor, fwd, ada, att, rel, pec, det, tse, con, fb, lyr, wrm, msk, byp>>

InitTimeEmb ==
    /\ ctor = CtorIdle
    /\ fwd = FwdIdle
    /\ ada = AdaIdle
    /\ att = AttIdle
    /\ rel = RelIdle
    /\ pec = PecIdle
    /\ det = DetIdle
    /\ tse = TseIdle
    /\ con = ConIdle
    /\ fb = FbIdle
    /\ lyr = LyrIdle
    /\ wrm = WrmIdle
    /\ msk = MskIdle
    /\ byp = BypIdle
    /\ tef \in TefArgs

NextTimeEmb ==
    \/ TefConstruct
    \/ TefTimeEmb
    \/ TefStack
    \/ TefReturn

SpecTimeEmb == InitTimeEmb /\ [][NextTimeEmb]_vars

(***************************************************************************)
(* Properties.                                                             *)
(***************************************************************************)
\* ceil(a / b), defined by what it is and not by the code's expression
Ceil(a, b) == CHOOSE q \in 0..a : q * b >= a /\ (q - 1) * b < a

\* A U-Net schedule: first and last entry 1, every entry up to the midpoint
\* (0-based index len // 2) double the one before it, every entry after the
\* midpoint half the one before it, and the tuple a palindrome.
UNetSchedule(f) ==
    LET n == Len(f)
    IN  /\ n >= 1
        /\ f[1] = 1
        /\ f[n] = 1
        /\ \A i \in 2..n : IF i - 1 <= n \div 2 THEN f[i] = 2 * f[i - 1]
                                                ELSE 2 * f[i] = f[i - 1]
        /\ \A i \in 1..n : f[i] = f[n + 1 - i]

\* C1, as claimed: construction gets past the schedule check only with a U-Net
\* schedule, and with any other tuple it fails with an AssertionError before
\* any encoder stack is built.
C1_RejectedByAssertion ==
    /\ ctor.pc \in {"validated", "built"} => UNetSchedule(ctor.factors)
    /\ (ctor.pc # "args" /\ ~UNetSchedule(ctor.factors)) =>
          /\ ctor.pc = "failed"
          /\ ctor.err = "AssertionError"
          /\ ctor.encoders = <<>>

\* C1, amended: construction gets past the schedule check only with a U-Net
\* schedule; any other tuple makes it fail before any encoder stack is built,
\* with an AssertionError when the tuple is not empty and with the IndexError
\* of factors[0] when it is empty.
C1_OnlyUNetAccepted ==
    /\ ctor.pc \in {"validated", "built"} => UNetSchedule(ctor.factors)
    /\ (ctor.pc # "args" /\ ~UNetSchedule(ctor.factors)) =>
          /\ ctor.pc = "failed"
          /\ ctor.err = IF ctor.factors = <<>> THEN "IndexError" ELSE "AssertionError"
          /\ ctor.encoders = <<>>

C1_Witness ==
    /\ ctor.pc = "failed"
    /\ ctor.factors = <<2, 4, 4>>
    /\ ctor.err = "AssertionError"

\* C2: SimpleDownsample(ds) of T frames yields ceil(T/ds) frames,
\* SimpleUpsample(ds) of that yields ceil(T/ds)*ds >= T frames, the truncation
\* yields exactly T frames, frame t being a copy of the downsampled block that
\* holds frame t, and the adapter returns a tensor of T frames without failing.
C2_RoundTripLength ==
    LET T == Len(ada.src_orig.time)
        c == Ceil(T, ada.ds)
    IN  /\ ada.pc # "error"
        /\ ada.pc \in {"down", "enc"} => Len(ada.src.time) = c
        /\ ada.pc = "up" => Len(ada.src.time) = c * ada.ds /\ c * ada.ds >= T
        /\ ada.pc = "cut" =>
              /\ Len(ada.src.time) = T
              /\ \A t \in 1..T : \E k \in 1..ada.ds : ada.src.time[t][k] = t
        /\ ada.pc = "done" => Len(ada.src.time) = T

C2_Witness ==
    /\ ada.pc = "done"
    /\ Len(ada.src_orig.time) = MaxT
    /\ ada.ds > 1
    /\ Len(ada.src_orig.time) % ada.ds # 0

RowSumsToOne(w, t) ==
    /\ w[t][1].den > 0
    /\ SumSeq([s \in 1..Len(w[t]) |-> w[t][s].num]) = w[t][1].den
    /\ \A s \in 1..Len(w[t]) : w[t][s].den = w[t][1].den

\* C4, as claimed: every row of the weights sums to 1 and the weight of every
\* pair excluded by the attention mask or the padding mask is exactly 0.
C4_MaskedWeightIsZero ==
    att.pc = "done" =>
        \A t \in 1..Len(att.weights) :
            /\ RowSumsToOne(att.weights, t)
            /\ \A s \in 1..Len(att.weights) :
                  Masked(att.attn_mask, att.key_padding_mask, t, s) =>
                      att.weights[t][s].num = 0

\* C4, amended: every row of the weights sums to 1; the weight of a masked
\* pair is exactly 0 in every row that holds an unmasked source whose score is
\* above -1000 by more than the underflow range of exp; in a row whose sources
\* are all masked every weight is 1/T.
C4_MaskedWeightIsZeroUnlessRowMasked ==
    att.pc = "done" =>
        LET T == Len(att.weights)
            masked(t, s) == Masked(att.attn_mask, att.key_padding_mask, t, s)
        IN  \A t \in 1..T :
              /\ RowSumsToOne(att.weights, t)
              /\ (\E u \in 1..T : /\ ~masked(t, u)
                                  /\ att.scores[t][u] - MaskFill > UnderflowGap) =>
                    \A s \in 1..T : masked(t, s) => att.weights[t][s].num = 0
              /\ (\A u \in 1..T : masked(t, u)) =>
                    \A s \in 1..T : att.weights[t][s].num * T = att.weights[t][s].den

\* a row with a masked and an unmasked source, and a row with every source masked
C4_Witness ==
    /\ att.pc = "done"
    /\ Len(att.weights) = 2
    /\ Masked(att.attn_mask, att.key_padding_mask, 1, 1)
    /\ ~Masked(att.attn_mask, att.key_padding_mask, 1, 2)
    /\ att.weights[1][1].num = 0
    /\ \A s \in 1..2 : Masked(att.attn_mask, att.key_padding_mask, 2, s)
    /\ \A s \in 1..2 : att.weights[2][s].num * 2 = att.weights[2][s].den

\* C5: on both paths of the transform (the as_strided view, and the gather used
\* under tracing) the positional score used for (tgt, src) is the one of
\* the same head, batch entry and target, taken from column (T-1) + (src - tgt),
\* which encodes offset src - tgt: offset 0 exactly when src = tgt, offset
\* -(T-1) exactly for tgt = T-1 and src = 0; every column lies in 0..2T-2.
C5_RelToAbsIndex ==
    (rel.pc = "done" /\ rel.use_pos_scores) =>
        \A x \in DOMAIN rel.pos_scores :
            LET tgt == x[3]
                src == x[4]
                col == (rel.T - 1) + (src - tgt)
                got == rel.pos_scores[x]
            IN  /\ col \in 0..(2 * rel.T - 2)
                /\ got = <<x[1], x[2], tgt, PosEmbOffset(rel.T, col)>>
                /\ got[4] = src - tgt
                /\ (got[4] = 0) <=> (src = tgt)
                /\ (got[4] = -(rel.T - 1)) <=> (tgt = rel.T - 1 /\ src = 0)

C5_Witness ==
    /\ rel.pc = "done"
    /\ rel.use_pos_scores
    /\ ~rel.tracing
    /\ rel.T = 4
    /\ rel.H = 2
    /\ rel.B = 2
    /\ rel.pos_scores[<<1, 1, 3, 0>>] = <<1, 1, 3, -3>>

\* the row of table pe that encodes offset o, pe being centred on offset 0
RowOf(pe, o) == pe[o + (Len(pe) + 1) \div 2]

\* C6: a request that the cached table covers does not regenerate the table,
\* which keeps its length and values; a larger request regenerates a table in
\* which the entry of every offset cached before has exactly the value it had
\* before.
C6_CacheKeptExactly ==
    pec.calls > 0 =>
        IF Len(pec.before) >= 2 * pec.T - 1
        THEN ~pec.regenerated /\ pec.pe = pec.before
        ELSE /\ pec.regenerated
             /\ Len(pec.pe) > Len(pec.before)
             /\ \A i \in 1..Len(pec.before) :
                   RowOf(pec.pe, pec.before[i].off) = pec.before[i]

\* C7: the cached table has odd length 2T'-1, its rows encode the offsets
\* -(T'-1)..(T'-1) in increasing order (so its middle row is offset 0), it
\* covers the range of the latest request, and a forward call on T frames
\* returns exactly the 2T-1 rows of the offsets -(T-1)..(T-1) in increasing
\* order, taken from the cached table.
C7_TableCoversRequest ==
    LET size == Len(pec.pe)
        half == (size + 1) \div 2
    IN  /\ size % 2 = 1
        /\ \A i \in 1..size : pec.pe[i].off = i - half
        /\ pec.pe[half].off = 0
        /\ size >= 2 * pec.T - 1
        /\ pec.calls = 0 => size = 2 * max_len - 1
        /\ pec.calls > 0 =>
              /\ Len(pec.pos_emb) = 2 * pec.T - 1
              /\ \A j \in 1..Len(pec.pos_emb) :
                    /\ pec.pos_emb[j].off = j - pec.T
                    /\ pec.pos_emb[j] = RowOf(pec.pe, j - pec.T)

\* a short request served from the table built at construction
C7_Witness ==
    /\ pec.calls > 0
    /\ pec.T = 2
    /\ Len(pec.pe) = 2 * max_len - 1
    /\ ~pec.regenerated
    /\ Len(pec.pos_emb) = 3

ShapeOf(timesteps, rank) ==
    IF rank = 2 THEN <<Len(timesteps), Len(timesteps[1])>> ELSE <<Len(timesteps)>>

LeadingShape(out, rank) ==
    IF rank = 2 THEN <<Len(out), Len(out[1])>> ELSE <<Len(out)>>

Rows(out, rank) ==
    IF rank = 2 THEN {out[t][n] : t \in 1..Len(out), n \in 1..Len(out[1])}
    ELSE {out[n] : n \in 1..Len(out)}

\* C9: for timesteps of rank 1 or 2 and every dim >= 1, the leading shape of
\* the embedding is the shape of the timesteps, its trailing dimension is dim,
\* and its last column is all zeros when dim is odd.
C9_EmbeddingShape ==
    tse.pc = "called" =>
        /\ LeadingShape(tse.out, tse.rank) = ShapeOf(tse.timesteps, tse.rank)
        /\ \A row \in Rows(tse.out, tse.rank) :
              /\ Len(row) = tse.dim
              /\ tse.dim % 2 = 1 => row[Len(row)] = ZeroEntry

\* the embedding of batch `out` with its batch axis permuted by perm
PermuteEmbedding(out, rank, perm) ==
    IF rank = 2
    THEN [t \in 1..Len(out) |-> [n \in 1..Len(out[t]) |-> out[t][perm[n]]]]
    ELSE [n \in 1..Len(out) |-> out[perm[n]]]

\* the embedding of example i of the batch embedded as `out`
ExampleOf(out, rank, i) ==
    IF rank = 2 THEN [t \in 1..Len(out) |-> <<out[t][i]>>] ELSE <<out[i]>>

\* C10: the embedding of a batch with its examples permuted is the embedding
\* of the batch with its batch axis permuted the same way, and the embedding
\* of an example is the same in the batch and in the batch of that example
\* alone.
C10_BatchEquivariant ==
    /\ tse.pc = "permuted" =>
          tse.other = PermuteEmbedding(tse.out, tse.rank, tse.perm)
    /\ tse.pc = "alone" =>
          tse.other = ExampleOf(tse.out, tse.rank, tse.i)

\* a rank-2 batch of distinct examples embedded again in another order
C10_Witness ==
    /\ tse.pc = "permuted"
    /\ tse.rank = 2
    /\ tse.dim > 2
    /\ Len(tse.timesteps) > 1
    /\ tse.timesteps[1] # tse.timesteps[2]
    /\ tse.perm[1] # 1
    /\ tse.other # tse.out

\* C11: an int or a one-element tuple given for num_encoder_layers or
\* cnn_module_kernel is expanded to len(downsampling_factor) equal entries; a
\* tuple of another length that differs from len(downsampling_factor) fails
\* the construction with an assertion; once both are expanded, and so in a
\* constructed model, each has exactly one entry per stack.
C11_PerStackTuples ==
    LET n == Len(con.factors)
        Expanded(arg, t) ==
            /\ Len(t) = n
            /\ Len(arg.val) = 1 => \A i \in 1..n : t[i] = arg.val[1]
            /\ Len(arg.val) # 1 => t = arg.val
        Rejected(arg) == Len(arg.val) # 1 /\ Len(arg.val) # n
    IN  /\ con.pc \in {"kernel", "time_embed", "stacks", "built"} =>
              /\ Expanded(con.layers_arg, con.num_encoder_layers)
              /\ ~Rejected(con.layers_arg)
        /\ con.pc \in {"time_embed", "stacks", "built"} =>
              /\ Expanded(con.kernel_arg, con.cnn_module_kernel)
              /\ ~Rejected(con.kernel_arg)
        /\ con.at = "layers" =>
              /\ Rejected(con.layers_arg)
              /\ con.err = "AssertionError"
              /\ con.encoders = <<>>
        /\ con.at = "kernel" =>
              /\ Rejected(con.kernel_arg)
              /\ con.err = "AssertionError"
              /\ con.encoders = <<>>

\* a model of three stacks built from an int and a one-element tuple
C11_Witness ==
    /\ con.pc = "built"
    /\ Len(con.factors) = 3
    /\ con.layers_arg = IntArg(2)
    /\ con.kernel_arg = TupleArg(<<3>>)
    /\ con.num_encoder_layers = <<2, 2, 2>>
    /\ con.cnn_module_kernel = <<3, 3, 3>>

\* a tuple of two entries given for three stacks
C11_WitnessRejected ==
    /\ con.at = "kernel"
    /\ Len(con.factors) = 3
    /\ Len(con.kernel_arg.val) = 2

\* whether some entry of tuple t is even
SomeEven(t) == \E i \in 1..Len(t) : t[i] % 2 = 0

C12_WitnessUnchecked ==
    /\ con.pc = "built"
    /\ ~con.use_conv
    /\ SomeEven(con.cnn_module_kernel)

\* C13: in both modes a job that finds the destination manifest of its
\* (sub)set performs no feature extraction and changes no file of the
\* destination, and the same command run again after a run that reported
\* success extracts nothing and leaves the destination as it was.
C13_Idempotent ==
    /\ \A j \in 1..Len(fb.futures) :
          fb.futures[j].had_manifest =>
              /\ fb.futures[j].outcome \notin {"extracted", "raised"}
              /\ ~fb.futures[j].changed
    /\ fb.run = 2 =>
          /\ fb.fs = fb.fs_start
          /\ fb.pc # "fatal"
          /\ \A j \in 1..Len(fb.futures) :
                fb.futures[j].outcome \in {"none", "exists", "no_raw", "no_src_dir"}

\* a second run in split mode that found the manifests the first run wrote
C13_Witness ==
    /\ fb.run = 2
    /\ fb.pc = "success"
    /\ fb.split_cuts
    /\ Len(fb.futures) = 2
    /\ \A j \in 1..2 : fb.futures[j].outcome = "exists"
    /\ fb.fs_start.files = Destination(Shards)


C15_StacksBuiltAndApplied ==
    /\ ctor.pc = "built" =>
          /\ Len(ctor.encoders) = Len(ctor.factors)
          /\ \A i \in 1..Len(ctor.factors) :
                /\ ctor.encoders[i].kind = "DownsampledZipformer2Encoder"
                      <=> ctor.factors[i] # 1
                /\ ctor.encoders[i].kind = "Zipformer2Encoder"
                      <=> ctor.factors[i] = 1
                /\ ctor.encoders[i].kind = "DownsampledZipformer2Encoder"
                      => ctor.encoders[i].downsample = ctor.factors[i]
    /\ \A k \in 1..Len(fwd.calls) :
          /\ fwd.calls[k].module = k
          /\ fwd.calls[k].time_emb = fwd.time_emb
          /\ fwd.calls[k].src_key_padding_mask = fwd.mask
          /\ fwd.calls[k].attn_mask = "None"
    /\ fwd.pc = "stacks" => Len(fwd.calls) = fwd.i - 1
    /\ fwd.pc = "done" => Len(fwd.calls) = Len(ctor.factors)

\* a forward pass with a padding mask through plain and wrapped stacks
C15_Witness ==
    /\ fwd.pc = "done"
    /\ Len(fwd.calls) >= 3
    /\ fwd.mask # <<>>
    /\ \E i, j \in 1..Len(ctor.encoders) :
          /\ ctor.encoders[i].kind = "Zipformer2Encoder"
          /\ ctor.encoders[j].kind = "DownsampledZipformer2Encoder"


(***************************************************************************)
(* C16: within one training-mode call of Zipformer2EncoderLayer.forward    *)
(* one per-sequence skip mask is drawn, once, and applied to the output of *)
(* the nonlinear attention, of the first self-attention and of the second  *)
(* self-attention: for every sequence either the three contributions are   *)
(* zeroed (its draw did not exceed the skip rate) or none is; nothing is   *)
(* drawn for the second self-attention.                                    *)
(***************************************************************************)
Zeroed(factor, b) == factor[b] = 0

C16_SharedSkipMask ==
    (lyr.training /\ ~lyr.tracing) =>
        /\ lyr.pc \in {"self_attn2", "conv_module2"} =>
              \A b \in 1..lyr.B :
                 /\ Zeroed(lyr.na, b) <=> Zeroed(lyr.self_attn1, b)
                 /\ Zeroed(lyr.na, b) <=>
                       /\ lyr.attention_skip_rate # 0
                       /\ lyr.mask_rand[b] <= lyr.attention_skip_rate
        /\ lyr.pc = "conv_module2" =>
              /\ \A b \in 1..lyr.B : Zeroed(lyr.na, b) <=> Zeroed(lyr.self_attn2, b)
              /\ lyr.rand_calls = (IF lyr.attention_skip_rate # 0 THEN 1 ELSE 0)
                                     + (IF lyr.use_conv THEN 1 ELSE 0) + 1

\* a training call in which the mask zeroes the three contributions of the
\* first sequence and keeps those of the second
C16_Witness ==
    /\ lyr.training /\ ~lyr.tracing
    /\ lyr.pc = "conv_module2"
    /\ lyr.B >= 2
    /\ lyr.self_attn2[1] = 0 /\ lyr.self_attn1[1] = 0 /\ lyr.na[1] = 0
    /\ lyr.self_attn2[2] = 1 /\ lyr.self_attn1[2] = 1 /\ lyr.na[2] = 1


(***************************************************************************)
(* C17: the constant-attention substitution changes only the weights       *)
(* handed to the nonlinear attention.  Drawn or not, both self-attention   *)
(* modules get the tensor the attention-weights module returned; without   *)
(* the substitution the nonlinear attention gets the first head of that    *)
(* tensor, and with it every row it gets is uniform over exactly the       *)
(* source positions whose weight in that head was not 0, and sums to 1.    *)
(***************************************************************************)
UniformOverNonzero(row, original) ==
    /\ Len(row.num) = Len(original.num)
    /\ \A j \in 1..Len(row.num) :
          /\ row.num[j] \in {0, 1}
          /\ row.num[j] # 0 <=> original.num[j] # 0
    /\ row.den > 0
    /\ SumSeq(row.num) = row.den

C17_ConstAttentionOnlyForNonlin ==
    /\ lyr.pc \in {"conv_module1", "self_attn2", "conv_module2"} =>
          lyr.self_attn1_weights = lyr.attn_weights
    /\ lyr.pc = "conv_module2" => lyr.self_attn2_weights = lyr.attn_weights
    /\ lyr.pc \in {"self_attn1", "conv_module1", "self_attn2", "conv_module2"} =>
          /\ Len(lyr.na_weights) = 1
          /\ ~lyr.const_attention => lyr.na_weights[1] = lyr.attn_weights[1]
          /\ lyr.const_attention =>
                \A b \in 1..lyr.B : \A i \in 1..Len(lyr.attn_weights[1][b]) :
                    UniformOverNonzero(lyr.na_weights[1][b][i],
                                       lyr.attn_weights[1][b][i])

\* the substitution was drawn on weights with a zero and with unequal
\* entries, and the second self-attention has run on the original weights
C17_Witness ==
    /\ lyr.pc = "conv_module2"
    /\ lyr.const_attention
    /\ lyr.na_weights[1] # lyr.attn_weights[1]
    /\ lyr.attn_weights[1][1][1].num = <<1, 0>>
    /\ lyr.attn_weights[1][1][2].num = <<1, 3>>
    /\ lyr.na_weights[1][1][1] = [num |-> <<1, 0>>, den |-> 1]
    /\ lyr.na_weights[1][1][2] = [num |-> <<1, 1>>, den |-> 2]
    /\ lyr.self_attn2_weights = lyr.attn_weights


(***************************************************************************)
(* C18 as stated: a Zipformer2Encoder built with N layers gives layer i    *)
(* the schedule from initial_layerdrop_rate at                             *)
(* warmup_begin + i * (warmup_end - warmup_begin) / N to                   *)
(* final_layerdrop_rate at                                                 *)
(* warmup_begin + (i + 1) * (warmup_end - warmup_begin) / N, so that the   *)
(* phases meet, the first starts at warmup_begin and the last ends at      *)
(* warmup_end.                                                             *)
(***************************************************************************)
\* the float x is the number num / den
FloatIs(x, num, den) ==
    IF x.e >= 0 THEN Scaled(x, 0) * den = num
    ELSE x.m * den = num * Pow2(0 - x.e)

Phase(i) == wrm.skip_rate[i].points

C18_ExactPhases ==
    wrm.pc = "built" =>
        \A i \in 1..wrm.num_layers :
            /\ Phase(i)[1].y = "initial_layerdrop_rate"
            /\ Phase(i)[2].y = "final_layerdrop_rate"
            /\ FloatIs(Phase(i)[1].x,
                       wrm.begin * wrm.num_layers + (i - 1) * (wrm.end - wrm.begin),
                       wrm.num_layers)
            /\ FloatIs(Phase(i)[2].x,
                       wrm.begin * wrm.num_layers + i * (wrm.end - wrm.begin),
                       wrm.num_layers)

(***************************************************************************)
(* C18, amended: the schedule of layer i goes from initial_layerdrop_rate  *)
(* at b_i to final_layerdrop_rate at b_(i+1), where b_0 is warmup_begin    *)
(* and consecutive phases meet exactly, so that layer i finishes before    *)
(* layer i + 1 starts; every boundary b_i is                               *)
(* warmup_begin + i * (warmup_end - warmup_begin) / N, and the last one    *)
(* warmup_end, up to the rounding of the floating-point operations that    *)
(* computed it: within k * u / (1 - k * u) of warmup_end, for k = N + 3    *)
(* and the unit roundoff u = 2^-Precision.                                 *)
(***************************************************************************)
\* |x - num / den| <= tol_num / tol_den, for a float x
FloatNear(x, num, den, tol_num, tol_den) ==
    LET s == IF x.e >= 0 THEN 0 ELSE 0 - x.e
        X == IF x.e >= 0 THEN Scaled(x, 0) ELSE x.m
        d == X * den - num * Pow2(s)
    IN  (IF d >= 0 THEN d ELSE 0 - d) * tol_den <= tol_num * den * Pow2(s)

Boundary(i) == IF i = 0 THEN Phase(1)[1].x ELSE Phase(i)[2].x

C18_PhasesUpToRounding ==
    wrm.pc = "built" =>
        /\ Phase(1)[1].x = wrm.warmup_begin
        /\ \A i \in 1..wrm.num_layers :
              /\ Phase(i)[1].y = "initial_layerdrop_rate"
              /\ Phase(i)[2].y = "final_layerdrop_rate"
              /\ Phase(i)[1].x = Boundary(i - 1)
              /\ FloatLe(Phase(i)[1].x, Phase(i)[2].x)
        /\ \A i \in 0..wrm.num_layers :
              FloatNear(Boundary(i),
                        wrm.begin * wrm.num_layers + i * (wrm.end - wrm.begin),
                        wrm.num_layers,
                        (wrm.num_layers + 3) * wrm.end,
                        Pow2(Precision) - (wrm.num_layers + 3))

\* three layers over [1, 3]: the phases meet, and the last one does not
\* end at warmup_end
C18_Witness ==
    /\ wrm.pc = "built"
    /\ wrm.num_layers = 3
    /\ wrm.begin = 1 /\ wrm.end = 3
    /\ Phase(2)[1].x = Phase(1)[2].x
    /\ Phase(3)[1].x = Phase(2)[2].x
    /\ Phase(3)[2].x # wrm.warmup_end


(***************************************************************************)
(* C19: DownsampledZipformer2Encoder.forward with factor ds takes every    *)
(* ds-th entry of an attention mask along its target axis and along its    *)
(* source axis, for a mask (T, T) and for a mask (batch, T, T): the inner  *)
(* stack receives a mask whose target and source lengths are both          *)
(* ceil(T/ds) and whose batch axis is untouched.                           *)
(***************************************************************************)
\* the indexes 1, 1 + ds, 1 + 2 * ds, ... of an axis of length T
EveryDsTh(T, ds) == [i \in 1..Ceil(T, ds) |-> (i - 1) * ds + 1]

C19_MaskStridedOnTimeAxes ==
    (msk.pc \in {"down", "enc", "error"} /\ msk.rank # 0) =>
        /\ msk.pc # "error"
        /\ msk.rank = 2 =>
              msk.attn_mask = <<EveryDsTh(msk.T, msk.ds), EveryDsTh(msk.T, msk.ds)>>
        /\ msk.rank = 3 =>
              msk.attn_mask = <<[b \in 1..msk.B |-> b],
                                EveryDsTh(msk.T, msk.ds), EveryDsTh(msk.T, msk.ds)>>

\* C19 for the matrices: a mask (T, T) is sliced along both of its axes
C19_MatrixStridedOnTimeAxes ==
    (msk.pc \in {"down", "enc", "error"} /\ msk.rank = 2) =>
        /\ msk.pc # "error"
        /\ msk.attn_mask = <<EveryDsTh(msk.T, msk.ds), EveryDsTh(msk.T, msk.ds)>>


(***************************************************************************)
(* C20: in every forward call of every BypassModule, in training and in    *)
(* inference, every scale multiplied onto (src - src_orig) lies in [0, 1], *)
(* whatever the value of the parameter bypass_scale.                       *)
(***************************************************************************)
C20_ScaleInUnitInterval ==
    byp.pc = "done" =>
        \A b \in 1..byp.B : \A c \in 1..Len(byp.bypass_scale) :
            /\ 0 <= byp.scale[b][c]
            /\ byp.scale[b][c] <= ScaleMax

\* C20 in training: the scale lies in [0, 1], and is either 0, for a
\* skipped sequence, or between scale_min and scale_max
C20_ScaleInUnitIntervalInTraining ==
    (byp.pc = "done" /\ byp.training /\ ~byp.tracing) =>
        \A b \in 1..byp.B : \A c \in 1..Len(byp.bypass_scale) :
            /\ 0 <= byp.scale[b][c]
            /\ byp.scale[b][c] <= ScaleMax
            /\ byp.scale[b][c] = 0 \/ byp.scale[b][c] >= byp.scale_min

(***************************************************************************)
(* C21: the presence of the time embedding is checked at forward time.  A  *)
(* model built with use_time_embed fails with an AssertionError in its     *)
(* first stack when forward is called without t; a model built without     *)
(* use_time_embed fails when forward is called with t; neither call        *)
(* returns an output; and construction with use_time_embed and             *)
(* time_embed_dim = -1 fails with an AssertionError.                       *)
(***************************************************************************)
TefOver == tef.pc \in {"done", "failed"}

DefaultDownsamplingFactor == <<2, 4>>

C22_AcceptedSchedulesAreOdd ==
    /\ ctor.pc \in {"validated", "built"} =>
          \E k \in 0..Len(ctor.factors) :
              /\ Len(ctor.factors) = 2 * k + 1
              /\ \A i \in 0..(2 * k) : ctor.factors[i + 1] = Pow2(Min(i, 2 * k - i))
    /\ (ctor.pc # "args" /\ Len(ctor.factors) % 2 = 0) => ctor.pc = "failed"
    /\ (ctor.pc # "args" /\ ctor.factors = DefaultDownsamplingFactor) =>
          /\ ctor.pc = "failed"
          /\ ctor.err = "AssertionError"
          /\ ctor.encoders = <<>>

C22_Witness ==
    /\ ctor.pc = "validated"
    /\ Len(ctor.factors) = 5
    /\ ctor.factors[3] = 4

(***************************************************************************)
(* C23: inside DownsampledZipformer2Encoder.forward, for T frames and a    *)
(* factor ds, the strided padding mask and a strided rank-3 time embedding *)
(* have ceil(T/ds) time entries, the length of the downsampled sequence;   *)
(* SimpleDownsample pads by 0..ds-1 frames to ceil(T/ds)*ds frames, and    *)
(* neither its assertion nor the shape checks of the inner stack fail.     *)
(***************************************************************************)
C23_StridedLengthsAgree ==
    LET T == Len(ada.src_orig.time)
        c == Ceil(T, ada.ds)
        pad == DSeqLen(T, ada.ds) * ada.ds - T
    IN  /\ ada.pc # "error"
        /\ ada.pc # "idle" => /\ pad \in 0..(ada.ds - 1)
                              /\ T + pad = c * ada.ds
        /\ ada.pc = "down" =>
              /\ Len(ada.src.time) = c
              /\ ada.mask # <<>> => ada.mask = <<ada.src.batch, c>>
              /\ Len(ada.time_emb) = 3 => ada.time_emb[1] = c
              /\ SimpleDownsample_forward(ada.src_orig, ada.ds).ok
              /\ Zipformer2Encoder_forward(ada.src, ada.time_emb, ada.mask).ok

C23_Witness ==
    /\ ada.pc = "enc"
    /\ ada.ds = 3
    /\ Len(ada.src_orig.time) = 7
    /\ ada.mask = <<1, 3>>
    /\ Len(ada.time_emb) = 3
    /\ ada.time_emb[1] = 3

(***************************************************************************)
(* C24: in the downsample adapter, downsampled frame j (from 0) is marked  *)
(* as padding for the inner stack exactly when original frame j*ds is; the *)
(* other frames of its block, and the repeated last frame that pads the    *)
(* last block, have no part in the inner mask, although the downsampled    *)
(* frame is the weighted sum of all ds frames of its block.                *)
(***************************************************************************)
C24_BlockMaskedByItsFirstFrame ==
    LET T == Len(ada.src_orig.time)
        ds == ada.ds
    IN  (ada.pc = "down" /\ ada.padding_orig # <<>>) =>
            /\ Len(ada.padding) = Len(ada.src.time)
            /\ \A j \in 0..(Len(ada.padding) - 1) :
                  /\ j * ds < T
                  /\ ada.padding[j + 1] = ada.padding_orig[j * ds + 1]
                  /\ ada.src.time[j + 1] = [k \in 1..ds |-> Min(j * ds + k, T)]

C24_Witness ==
    /\ ada.pc = "down"
    /\ ada.ds = 3
    /\ ada.padding_orig = <<FALSE, TRUE, TRUE, FALSE, TRUE>>
    /\ ada.padding = <<FALSE, FALSE>>
    /\ ada.src.time = <<<<1, 2, 3>>, <<4, 5, 5>>>>

(***************************************************************************)
(* C25: the gather used under tracing and the as_strided view used         *)
(* otherwise select the same element of the relative-score matrix for      *)
(* every head, batch entry, tgt and src: whichever of the two the call     *)
(* took, its result is the result of the other on the same shapes, and     *)
(* every element read lies inside the storage of its own (head, batch,     *)
(* tgt) row.                                                               *)
(***************************************************************************)
C25_GatherEqualsStridedView ==
    (rel.pc = "done" /\ rel.use_pos_scores) =>
        /\ rel.pos_scores = RelToAbsGather(rel.H, rel.B, rel.T)
        /\ rel.pos_scores = RelToAbsStrided(rel.H, rel.B, rel.T)
        /\ \A x \in DOMAIN rel.pos_scores :
              /\ Len(rel.pos_scores[x]) = 4
              /\ <<rel.pos_scores[x][1], rel.pos_scores[x][2], rel.pos_scores[x][3]>>
                    = <<x[1], x[2], x[3]>>

C25_Witness ==
    /\ rel.pc = "done"
    /\ rel.use_pos_scores
    /\ rel.tracing
    /\ rel.T = 3
    /\ rel.H = 2
    /\ rel.B = 2
    /\ rel.pos_scores[<<1, 0, 2, 1>>] = <<1, 0, 2, -1>>
    /\ RelToAbsStrided(2, 2, 3)[<<1, 0, 2, 1>>] = <<1, 0, 2, -1>>

(***************************************************************************)
(* C26, as claimed: with training disabled and outside tracing and         *)
(* scripting, a forward call draws nothing from Python's global `random`   *)
(* generator and nothing from the torch generator.                         *)
(***************************************************************************)
C26_NoDrawAtInference ==
    (~det.training /\ ~det.tracing) =>
        \A r \in Runs : det.run[r].random_draws = 0 /\ det.run[r].torch_draws = 0

(***************************************************************************)
(* C26, amended: with training disabled and outside tracing and scripting, *)
(* a forward call of a layer draws nothing from the torch generator and    *)
(* exactly one value from Python's global `random` generator, the one that *)
(* decides whether the attention entropy is logged; no other draw of the   *)
(* layer is made.                                                          *)
(***************************************************************************)
C26_OnlyLoggingDrawAtInference ==
    (~det.training /\ ~det.tracing) =>
        \A r \in Runs :
            /\ det.run[r].torch_draws = 0
            /\ det.run[r].random_draws =
                  IF det.pc \in {"idle", "begin", "attn_weights", "penalty", "softmax"}
                  THEN 0 ELSE 1

C26_Witness ==
    /\ det.pc = "done"
    /\ ~det.training
    /\ ~det.tracing
    /\ det.use_conv
    /\ \A n \in RateNames : det.rates[n] = NonzeroRate
    /\ \A r \in Runs : det.run[r].random_draws = 1 /\ det.run[r].torch_draws = 0
    /\ ~det.run[1].logged
    /\ ~det.run[2].logged

(***************************************************************************)
(* C27: in split mode, when a shard job raises, no other submitted job is  *)
(* cancelled or skipped: by the time the exception leaves                  *)
(* compute_fbank_split every submitted job has run to its end, a job that  *)
(* succeeded has written its manifest, and the exception that leaves is    *)
(* the one of the raising job with the lowest shard index.                 *)
(***************************************************************************)
C27_FailureCancelsNoJob ==
    (fb.split_cuts /\ fb.num_jobs > 0 /\ fb.pc \in {"unwinding", "fatal"}) =>
        /\ fb.k \in 1..Len(fb.futures)
        /\ fb.futures[fb.k].state = "raised"
        /\ \A i \in 1..(fb.k - 1) : fb.futures[i].state = "done"
        /\ \A i \in 1..Len(fb.futures) : fb.futures[i].idx < fb.futures[fb.k].idx
                                           => fb.futures[i].state # "raised"
        /\ fb.pc = "fatal" =>
              \A j \in 1..Len(fb.futures) :
                  /\ fb.futures[j].state \in {"done", "raised"}
                  /\ fb.futures[j].execs = 1
                  /\ fb.futures[j].outcome = "extracted" =>
                        <<"cuts", fb.futures[j].idx>> \in fb.fs.files

\* the first shard raised and the second one, submitted with it, wrote its
\* manifest before the run ended
C27_Witness ==
    /\ fb.split_cuts
    /\ fb.pc = "fatal"
    /\ fb.num_jobs = 1
    /\ fb.k = 1
    /\ Len(fb.futures) = 2
    /\ fb.futures[1].outcome = "raised"
    /\ fb.futures[2].outcome = "extracted"
    /\ <<"cuts", 1>> \in fb.fs.files
    /\ <<"cuts", 1>> \notin fb.fs_start.files

(***************************************************************************)
(* C28: in both modes the destination manifest of a (sub)set is written    *)
(* only after its feature computation returned.  At every point of a run,  *)
(* a destination manifest that the run wrote belongs to a job whose        *)
(* feature computation succeeded, and its feature archive is there; a job  *)
(* that raised has written no manifest, and the job of the same (sub)set   *)
(* in the next run does not skip it as already done: it computes the       *)
(* features again.                                                         *)
(***************************************************************************)
\* the job of (sub)set idx in a run of the same command on the files fs
NextRunJob(fs, idx) ==
    IF fb.split_cuts THEN compute_fbank_split_single(fs, fb.type, idx, "ok")
    ELSE compute_fbank(fs, fb.type, "ok")

C28_ManifestOnlyAfterFeatures ==
    /\ \A i \in Shards \cup {Whole} :
          <<"cuts", i>> \in fb.fs.files \ fb.fs_start.files =>
              /\ <<"feats", i>> \in fb.fs.files
              /\ \E j \in 1..Len(fb.futures) : /\ fb.futures[j].idx = i
                                               /\ fb.futures[j].outcome = "extracted"
    /\ \A j \in 1..Len(fb.futures) :
          LET f == fb.futures[j]
          IN  (f.outcome \in Raises /\ ~f.had_manifest) =>
                  /\ <<"cuts", f.idx>> \notin fb.fs.files
                  /\ NextRunJob(fb.fs, f.idx).outcome # "exists"
                  /\ f.outcome = "raised" =>
                        NextRunJob(fb.fs, f.idx).outcome = "extracted"

\* a shard job that raised after it had written features, beside one that
\* wrote its manifest
C28_Witness ==
    /\ fb.split_cuts
    /\ fb.pc = "fatal"
    /\ Len(fb.futures) = 2
    /\ fb.futures[1].outcome = "extracted"
    /\ fb.futures[2].outcome = "raised"
    /\ <<"feats", 1>> \in fb.fs.files
    /\ <<"cuts", 1>> \notin fb.fs.files
    /\ <<"cuts", 0>> \in fb.fs.files \ fb.fs_start.files

(***************************************************************************)
(* C29.  A shard is without source when the source directory or the        *)
(* shard's source manifest does not exist.                                 *)
(***************************************************************************)
WithoutSource(idx) == ~fb.fs.src_dir \/ idx \notin fb.fs.raw

RunOver == fb.pc \in {"success", "fatal"}

TefCalled == tef.pc \in {"stacks", "done"} \/ (tef.pc = "failed" /\ tef.at # "construct")

\* the position of operation op in embedding emb, 0 when it is not there
OpIndex(emb, op) ==
    IF \E i \in 1..Len(emb) : emb[i] = op
    THEN CHOOSE i \in 1..Len(emb) : emb[i] = op
    ELSE 0

GuidanceOps == {"timestep_embedding(guidance_scale)", "guidance_scale_embed", "add"}

C30_GuidanceOnlyWithTimestep ==
    /\ (TefCalled /\ tef.t = 0) =>
          /\ tef.at # "time_emb"
          /\ tef.time_emb = <<>>
          /\ \A i \in 1..Len(tef.received) : tef.received[i] = <<>>
          /\ TimeEmb(tef.use_time_embed, tef.use_guidance_scale_embed,
                     tef.time_embed_dim, tef.t, tef.guidance_scale)
               = TimeEmb(tef.use_time_embed, tef.use_guidance_scale_embed,
                         tef.time_embed_dim, tef.t, 0)
    /\ (tef.pc \in {"stacks", "done"} /\ tef.t # 0) =>
          /\ tef.time_emb[1] = "timestep_embedding(t)"
          /\ tef.time_emb[Len(tef.time_emb)] = "time_embed"
          /\ OpIndex(tef.time_emb, "time_embed") = Len(tef.time_emb)
          /\ \A i \in 1..Len(tef.received) : tef.received[i] = tef.time_emb
          /\ IF tef.guidance_scale # 0
             THEN /\ \A op \in GuidanceOps : OpIndex(tef.time_emb, op) > 1
                  /\ OpIndex(tef.time_emb, "guidance_scale_embed")
                        < OpIndex(tef.time_emb, "add")
                  /\ OpIndex(tef.time_emb, "add") < OpIndex(tef.time_emb, "time_embed")
             ELSE \A op \in GuidanceOps : OpIndex(tef.time_emb, op) = 0

\* a call with t and guidance_scale on a model that embeds both
C30_Witness ==
    /\ tef.pc = "done"
    /\ tef.t = 1
    /\ tef.guidance_scale = 2
    /\ tef.num_encoders = 3
    /\ tef.received[3] = <<"timestep_embedding(t)", "timestep_embedding(guidance_scale)",
                           "guidance_scale_embed", "add", "time_embed">>

====
